---- MODULE Spec2Model ----
(***************************************************************************)
(* Verification model of the GSTR2B / Tally reconciliation engines of      *)
(* sme_recon_mvp:                                                          *)
(*   backend/main.py            weighted multi-factor greedy matcher       *)
(*   backend/working_main.py    exact GSTIN + reference first-hit matcher  *)
(*   backend/reconciliation.py  masked candidate matcher                   *)
(*                                                                         *)
(* Numbers.  Python floats are modelled by exact rationals <<n, d>> with   *)
(* d > 0 in lowest terms; IEEE rounding is not modelled.  Amounts are      *)
(* integers in hundredths of a currency unit, dates are day numbers,       *)
(* strings are sequences of character codes: 1..26 the upper-case letters,  *)
(* 101..126 their lower-case forms, 0 a blank.                             *)
(***************************************************************************)
EXTENDS Integers, Sequences, FiniteSets, TLC

VARIABLES
    engine,                  \* which reconcile_transactions runs: "main", "working", "recon"
    gstr2b_df,               \* side A: sequence of records, position = DataFrame index
    tally_df,                \* side B
    threshold,               \* the pass's minimum match threshold
    pc,                      \* "scan" while the matching loop runs, "done" after the return
    i,                       \* outer loop: current side-A index
    j,                       \* inner loop: current side-B index
    best_match,              \* best candidate of the current scan, or NoMatch
    best_score,
    best_tally_idx,
    matches,                 \* list of committed matches
    matched_gstr2b_indices,
    matched_tally_indices,
    result,                  \* the returned dictionary, NoResult before the return
    prev,                    \* the first completed call of the process: inputs,
                             \* configuration and result, NoResult before it
    match_config,            \* reconciliation.py: the match_config argument in force
    raw_df,                  \* read_and_process_file: the table as read from the file
    processed,               \* read_and_process_file: its outcome, NoResult before it
    dup_df,                  \* find_duplicates: its df argument
    duplicates,              \* find_duplicates: its return value, NoResult before it
    sim_a,                   \* similarity_score / calculate_similarity: first argument
    sim_b,                   \* second argument
    similarity,              \* the two functions' return values, NoResult before them
    session,                 \* reconciliation_periods rows of the database session
    period_date,             \* get_or_create_period: its period_date argument
    period,                  \* get_or_create_period: the row it returned; the period
                             \* argument of the calls that follow
    transactions,            \* rows of the table transactions, in insertion order
    batch,                   \* save_transaction_batch: its transactions argument
    source,                  \* save_transaction_batch: its source argument
    saved,                   \* save_transaction_batch: its return value
    factor_probe,            \* main.py scoring: ref_sim and the amounts of two candidate pairs
    factor_scores,           \* the contributions computed for them, NoResult before
    token,                   \* working_main.py: the bearer token of the request
    auth0,                   \* Auth0 as the validator sees it: domain, key set, cache
    current_user,            \* get_current_user: its outcome, NoResult before it
    upload_started,          \* the body of the protected upload_files has been entered
    disk,                    \* UPLOAD_FOLDER: path |-> content
    requests                 \* upload_files: the requests in flight, one per client

reconVars == <<engine, gstr2b_df, tally_df, threshold, pc, i, j, best_match, best_score,
               best_tally_idx, matches, matched_gstr2b_indices, matched_tally_indices,
               result, prev>>
configVars == <<match_config>>
ingestVars == <<raw_df, processed>>
dupVars == <<dup_df, duplicates>>
simVars == <<sim_a, sim_b, similarity>>
dbVars == <<session, period_date, period, transactions, batch, source, saved>>
uploadVars == <<disk, requests>>
factorVars == <<factor_probe, factor_scores>>
authVars == <<token, auth0, current_user, upload_started>>
restVars == <<factorVars, authVars>>

\* everything outside one reconcile_transactions call
aux == <<configVars, ingestVars, dupVars, simVars, dbVars, uploadVars, restVars>>

vars == <<reconVars, aux>>

(***************************************************************************)
(* Exact rational arithmetic                                               *)
(***************************************************************************)
Abs(x) == IF x < 0 THEN -x ELSE x

RECURSIVE Gcd(_, _)
Gcd(a, b) == IF b = 0 THEN a ELSE Gcd(b, a % b)

Rat(n, d) ==
    LET g == Gcd(Abs(n), d) IN
    IF n = 0 THEN <<0, 1>> ELSE <<n \div g, d \div g>>

RAdd(x, y) ==
    LET g == Gcd(x[2], y[2]) IN
    Rat(x[1] * (y[2] \div g) + y[1] * (x[2] \div g), (x[2] \div g) * y[2])

RSub(x, y) == RAdd(x, <<-y[1], y[2]>>)

RMul(x, y) ==
    LET g1 == Gcd(Abs(x[1]), y[2])
        g2 == Gcd(Abs(y[1]), x[2])
        a1 == IF x[1] = 0 THEN 1 ELSE g1
        a2 == IF y[1] = 0 THEN 1 ELSE g2
    IN  Rat((x[1] \div a1) * (y[1] \div a2), (x[2] \div a2) * (y[2] \div a1))

RLe(x, y) == x[1] * y[2] <= y[1] * x[2]
RLt(x, y) == x[1] * y[2] < y[1] * x[2]
RGe(x, y) == RLe(y, x)
RGt(x, y) == RLt(y, x)
RMax(x, y) == IF RLt(x, y) THEN y ELSE x

Zero == <<0, 1>>
One == <<1, 1>>
Pct(n) == Rat(n, 100)

(***************************************************************************)
(* difflib.SequenceMatcher(None, a, b).ratio() for strings shorter than    *)
(* the autojunk limit: 2 * M / (|a| + |b|), M the total size of the        *)
(* matching blocks found by recursive longest-match splitting.             *)
(* Ranges are [lo, hi) over 1-based positions.                             *)
(***************************************************************************)
BlockAt(a, b, p, q, k) == \A t \in 0 .. (k - 1) : a[p + t] = b[q + t]

\* Longest block in a[alo, ahi) x b[blo, bhi); of the longest, the one
\* starting earliest in a, and of those the one starting earliest in b.
find_longest_match(a, b, alo, ahi, blo, bhi) ==
    LET Cand == { c \in (alo .. (ahi - 1)) \X (blo .. (bhi - 1)) \X (1 .. (ahi - alo)) :
                    /\ c[1] + c[3] <= ahi
                    /\ c[2] + c[3] <= bhi
                    /\ BlockAt(a, b, c[1], c[2], c[3]) }
        Better(c, e) == \/ c[3] > e[3]
                        \/ c[3] = e[3] /\ c[1] < e[1]
                        \/ c[3] = e[3] /\ c[1] = e[1] /\ c[2] <= e[2]
    IN  IF Cand = {} THEN <<alo, blo, 0>>
        ELSE CHOOSE c \in Cand : \A e \in Cand : Better(c, e)

RECURSIVE matching_size(_, _, _, _, _, _)
matching_size(a, b, alo, ahi, blo, bhi) ==
    IF alo >= ahi \/ blo >= bhi THEN 0
    ELSE LET m == find_longest_match(a, b, alo, ahi, blo, bhi) IN
         IF m[3] = 0 THEN 0
         ELSE m[3]
              + matching_size(a, b, alo, m[1], blo, m[2])
              + matching_size(a, b, m[1] + m[3], ahi, m[2] + m[3], bhi)

ratio(a, b) ==
    IF Len(a) + Len(b) = 0 THEN One
    ELSE Rat(2 * matching_size(a, b, 1, Len(a) + 1, 1, Len(b) + 1), Len(a) + Len(b))

\* str.upper() on one character: codes 101..126 are the lower-case forms of 1..26
UpperChar(c) == IF c > 100 THEN c - 100 ELSE c

\* str.upper()
upper(s) == [ k \in 1 .. Len(s) |-> UpperChar(s[k]) ]

\* main.py similarity_score: 0.0 when either string is empty, else the ratio
\* of the upper-cased strings
similarity_score(str1, str2) ==
    IF Len(str1) = 0 \/ Len(str2) = 0 THEN Zero ELSE ratio(upper(str1), upper(str2))

(***************************************************************************)
(* main.py: configuration of reconcile_transactions                        *)
(***************************************************************************)
amount_tolerance_percent == Pct(5)
date_window == 30
vendor_similarity_threshold == Pct(60)
min_match_threshold == Pct(50)

(***************************************************************************)
(* main.py: the four factors of the composite score                        *)
(***************************************************************************)
\* mutation: the tier from 0.8 up to 0.9 is the linear share of 0.65
ref_contributionLinear(ref_sim) ==
    IF RGe(ref_sim, Pct(98)) THEN Pct(65)
    ELSE IF RGe(ref_sim, Pct(90)) THEN RAdd(Pct(55), RSub(ref_sim, Pct(90)))
    ELSE IF RGe(ref_sim, Pct(80)) THEN RMul(ref_sim, Pct(65))
    ELSE RMul(ref_sim, Pct(15))

\* mutation: similarities below 0.8 earn half their value
ref_contributionLowTierHeavy(ref_sim) ==
    IF RGe(ref_sim, Pct(98)) THEN Pct(65)
    ELSE IF RGe(ref_sim, Pct(90)) THEN RAdd(Pct(55), RSub(ref_sim, Pct(90)))
    ELSE RMul(ref_sim, Pct(50))

\* 1. reference: tier function of the reference similarity
ref_contribution(ref_sim) ==
    IF RGe(ref_sim, Pct(98)) THEN Pct(65)
    ELSE IF RGe(ref_sim, Pct(90)) THEN RAdd(Pct(55), RSub(ref_sim, Pct(90)))
    ELSE IF RGe(ref_sim, Pct(80)) THEN RMul(ref_sim, Pct(50))
    ELSE RMul(ref_sim, Pct(15))

\* mutation: two zero amounts count as no difference
amount_percent_diffZeroSame(gstr2b_amount, tally_amount) ==
    LET amount_diff == Abs(gstr2b_amount - tally_amount)
        mx == IF gstr2b_amount >= tally_amount THEN gstr2b_amount ELSE tally_amount
    IN  IF mx > 0 THEN Rat(amount_diff, mx) ELSE Zero

\* 2. amount: relative difference, then factors['amount']
amount_percent_diff(gstr2b_amount, tally_amount) ==
    LET amount_diff == Abs(gstr2b_amount - tally_amount)
        mx == IF gstr2b_amount >= tally_amount THEN gstr2b_amount ELSE tally_amount
    IN  IF mx > 0 THEN Rat(amount_diff, mx) ELSE One

\* mutation: the wider band is not halved
amount_scoreFullCredit(apd) ==
    IF RLe(apd, Rat(1, 1000)) THEN One
    ELSE IF RLe(apd, amount_tolerance_percent)
         THEN RSub(One, RMul(apd, Rat(amount_tolerance_percent[2], amount_tolerance_percent[1])))
    ELSE IF RLe(apd, Pct(20))
         THEN RMax(Zero, RSub(One, RMul(apd, <<5, 1>>)))
    ELSE Zero

amount_score(apd) ==
    IF RLe(apd, Rat(1, 1000)) THEN One
    ELSE IF RLe(apd, amount_tolerance_percent)
         THEN RSub(One, RMul(apd, Rat(amount_tolerance_percent[2], amount_tolerance_percent[1])))
    ELSE IF RLe(apd, Pct(20))
         THEN RMul(RMax(Zero, RSub(One, RMul(apd, <<5, 1>>))), Pct(50))
    ELSE Zero

amount_contribution(gstr2b_amount, tally_amount) ==
    RMul(amount_score(amount_percent_diff(gstr2b_amount, tally_amount)), Pct(25))

\* mutation: the decay runs on past the window, unclamped
date_scoreNoCutoff(gstr2b_date, tally_date) ==
    LET date_diff == Abs(gstr2b_date - tally_date) IN
    IF date_diff = 0 THEN One ELSE RSub(One, Rat(date_diff, date_window))

\* 3. date: linear decay inside the window, nothing beyond it
date_score(gstr2b_date, tally_date) ==
    LET date_diff == Abs(gstr2b_date - tally_date) IN
    IF date_diff = 0 THEN One
    ELSE IF date_diff <= date_window
         THEN RMax(Zero, RSub(One, Rat(date_diff, date_window)))
    ELSE Zero

date_contribution(gstr2b_date, tally_date) ==
    RMul(date_score(gstr2b_date, tally_date), Pct(8))

\* mutation: the vendor weight is 5% instead of 2%
vendor_contributionHeavy(vendor_sim) ==
    IF RGe(vendor_sim, Pct(95)) THEN Pct(5)
    ELSE IF RGe(vendor_sim, vendor_similarity_threshold) THEN RMul(vendor_sim, Pct(5))
    ELSE RMul(vendor_sim, Pct(1))

\* 4. vendor
vendor_contribution(vendor_sim) ==
    IF RGe(vendor_sim, Pct(95)) THEN Pct(2)
    ELSE IF RGe(vendor_sim, vendor_similarity_threshold) THEN RMul(vendor_sim, Pct(2))
    ELSE RMul(vendor_sim, Pct(1))

\* score accumulated by one pass of the inner loop body
composite_score(gstr2b_row, tally_row) ==
    RAdd(RAdd(RAdd(
        ref_contribution(similarity_score(gstr2b_row.reference, tally_row.reference)),
        amount_contribution(gstr2b_row.amount, tally_row.amount)),
        date_contribution(gstr2b_row.date, tally_row.date)),
        vendor_contribution(similarity_score(gstr2b_row.vendor, tally_row.vendor)))

(***************************************************************************)
(* Bounds and input domains                                                *)
(***************************************************************************)
MaxA == 2
MaxB == 2

SeqsUpTo(S, n) == UNION { [1 .. k -> S] : k \in 0 .. n }

NoMatch == [gstr2b_idx |-> 0, tally_idx |-> 0, match_score |-> Zero]
NoResult == [status |-> "none"]
None == 0

RefA == <<1, 2>>
RefB == <<1, 3>>
VendorV == <<7, 8>>

RefC == <<3, 4>>
VendorW == <<5, 6>>

\* ingested rows: amounts are positive, strings are stripped and upper-cased
Row(d, a, v, r) == [ date |-> d, amount |-> a, vendor |-> v, reference |-> r, gstin |-> v ]

MainRecords ==
    { Row(0, 10000, VendorV, RefA), Row(44, 10000, VendorV, RefA),
      Row(0, 10400, VendorV, RefA),
      Row(0, 10000, VendorV, RefB), Row(44, 10000, VendorV, RefB) }

WorkingRecords ==
    { Row(0, a, VendorV, r) : a \in {10000, 10400}, r \in {RefA, RefB} }

ReconRecords ==
    { Row(0, 10000, VendorV, RefA), Row(0, 10400, VendorV, RefA),
      Row(0, 10000, VendorV, RefB), Row(0, 10000, VendorW, RefC) }

RecordsOf(e) ==
    IF e = "main" THEN MainRecords
    ELSE IF e = "working" THEN WorkingRecords
    ELSE ReconRecords

(***************************************************************************)
(* main.py reconcile_transactions: locals at the start of a call           *)
(* (lines 224-226) and at the start of an outer iteration (237-240)        *)
(***************************************************************************)
ScanReset ==
    /\ best_match' = NoMatch
    /\ best_score' = Zero
    /\ best_tally_idx' = None

\* mutation: the consumed tally set outlives the call
CallResetKeepsConsumed ==
    /\ matches' = <<>>
    /\ matched_gstr2b_indices' = {}
    /\ UNCHANGED matched_tally_indices
    /\ i' = 1
    /\ j' = 1
    /\ ScanReset

\* a new call: matches = [], both index sets = set(), the loops start over
CallReset ==
    /\ matches' = <<>>
    /\ matched_gstr2b_indices' = {}
    /\ matched_tally_indices' = {}
    /\ i' = 1
    /\ j' = 1
    /\ ScanReset

\* mutation: the consumed check never fires
IsConsumedNever(k, matched) == FALSE

\* "if j in matched_tally_indices"
IsConsumed(k, matched) == k \in matched

\* mutation: the index is not added to the set
MarkMatchedForgets(matched, k) == matched

\* matched_..._indices.add(k)
MarkMatched(matched, k) == matched \cup {k}

\* mutation: assignment instead of append
RecordMatchOverwrites(ms, m) == <<m>>

\* matches.append(m)
RecordMatch(ms, m) == Append(ms, m)

\* inner loop, "if j in matched_tally_indices: continue"
MainSkip ==
    /\ engine = "main" /\ pc = "scan"
    /\ i <= Len(gstr2b_df) /\ j <= Len(tally_df)
    /\ IsConsumed(j, matched_tally_indices)
    /\ j' = j + 1
    /\ UNCHANGED <<engine, gstr2b_df, tally_df, threshold, pc, i, best_match, best_score,
                   best_tally_idx, matches, matched_gstr2b_indices, matched_tally_indices,
                   result, prev>>
    /\ UNCHANGED aux

\* mutation: ">=" lets a later tally row of equal score replace the best
BetterCandidateTiesLast(score, best, t) == RGe(score, best) /\ RGe(score, t)

\* mutation: the threshold test is dropped
BetterCandidateNoThreshold(score, best, t) == RGt(score, best)

\* mutation: only scores of 0.95 and above are taken
BetterCandidateHighBar(score, best, t) == RGt(score, best) /\ RGe(score, Pct(95))

\* the update at the end of the inner loop body
BetterCandidate(score, best, t) == RGt(score, best) /\ RGe(score, t)

\* inner loop body for an unconsumed tally row
MainCompare ==
    /\ engine = "main" /\ pc = "scan"
    /\ i <= Len(gstr2b_df) /\ j <= Len(tally_df)
    /\ ~IsConsumed(j, matched_tally_indices)
    /\ LET score == composite_score(gstr2b_df[i], tally_df[j]) IN
         IF BetterCandidate(score, best_score, threshold)
         THEN /\ best_match' = [gstr2b_idx |-> i, tally_idx |-> j, match_score |-> score]
              /\ best_score' = score
              /\ best_tally_idx' = j
         ELSE UNCHANGED <<best_match, best_score, best_tally_idx>>
    /\ j' = j + 1
    /\ UNCHANGED <<engine, gstr2b_df, tally_df, threshold, pc, i, matches,
                   matched_gstr2b_indices, matched_tally_indices, result, prev>>
    /\ UNCHANGED aux

\* after the inner loop: "if best_match:" append and mark both indices,
\* then the next outer iteration resets the scan
MainCommit ==
    /\ engine = "main" /\ pc = "scan"
    /\ i <= Len(gstr2b_df) /\ j > Len(tally_df)
    /\ IF best_match # NoMatch
       THEN /\ matches' = RecordMatch(matches, best_match)
            /\ matched_gstr2b_indices' = MarkMatched(matched_gstr2b_indices, i)
            /\ matched_tally_indices' = MarkMatched(matched_tally_indices, best_tally_idx)
       ELSE UNCHANGED <<matches, matched_gstr2b_indices, matched_tally_indices>>
    /\ i' = i + 1
    /\ j' = 1
    /\ ScanReset
    /\ UNCHANGED <<engine, gstr2b_df, tally_df, threshold, pc, result, prev>>
    /\ UNCHANGED aux

\* mutation: the scan of the index starts one row late
RECURSIVE UnmatchedSkipsFirst(_, _, _)
UnmatchedSkipsFirst(n, matched, k) ==
    IF k >= n THEN <<>>
    ELSE IF (k + 1) \in matched THEN UnmatchedSkipsFirst(n, matched, k + 1)
    ELSE <<k + 1>> \o UnmatchedSkipsFirst(n, matched, k + 1)

\* df.loc[~df.index.isin(matched)]: the unmatched indices, in index order
RECURSIVE Unmatched(_, _, _)
Unmatched(n, matched, k) ==
    IF k > n THEN <<>>
    ELSE IF k \in matched THEN Unmatched(n, matched, k + 1)
    ELSE <<k>> \o Unmatched(n, matched, k + 1)

RECURSIVE SumScores(_)
SumScores(ms) ==
    IF ms = <<>> THEN Zero ELSE RAdd(Head(ms).match_score, SumScores(Tail(ms)))

CountAtLeast(ms, lo) ==
    Cardinality({ k \in 1 .. Len(ms) : RGe(ms[k].match_score, lo) })

CountBetween(ms, lo, hi) ==
    Cardinality({ k \in 1 .. Len(ms) :
                    RLe(lo, ms[k].match_score) /\ RLt(ms[k].match_score, hi) })

CountBelow(ms, hi) ==
    Cardinality({ k \in 1 .. Len(ms) : RLt(ms[k].match_score, hi) })

\* mutation: the high tier starts at 0.90 and overlaps the medium tier
high_confidenceLowBar(ms) == CountAtLeast(ms, Pct(90))

high_confidence(ms) == CountAtLeast(ms, Pct(95))
medium_confidence(ms) == CountBetween(ms, Pct(85), Pct(95))
low_confidence(ms) == CountBelow(ms, Pct(85))

\* main.py lines 373-411: metrics, unmatched frames, the returned dictionary
MainResult(ms, ga, ta, A, B) ==
    LET unmatched_gstr2b == Unmatched(Len(A), ga, 1)
        unmatched_tally == Unmatched(Len(B), ta, 1)
    IN  [ status |-> "returned",
          matches |-> ms,
          metrics |-> [ total_matches |-> Len(ms),
                        high_confidence |-> high_confidence(ms),
                        medium_confidence |-> medium_confidence(ms),
                        low_confidence |-> low_confidence(ms),
                        average_score |-> IF Len(ms) > 0
                                          THEN RMul(SumScores(ms), Rat(1, Len(ms)))
                                          ELSE Zero,
                        unmatched_total |-> Len(unmatched_gstr2b) + Len(unmatched_tally) ],
          unmatched_gstr2b |-> unmatched_gstr2b,
          unmatched_tally |-> unmatched_tally ]

MainFinish ==
    /\ engine = "main" /\ pc = "scan"
    /\ i > Len(gstr2b_df)
    /\ result' = MainResult(matches, matched_gstr2b_indices, matched_tally_indices,
                            gstr2b_df, tally_df)
    /\ pc' = "done"
    /\ UNCHANGED <<engine, gstr2b_df, tally_df, threshold, i, j, best_match, best_score,
                   best_tally_idx, matches, matched_gstr2b_indices, matched_tally_indices,
                   prev>>
    /\ UNCHANGED aux

(***************************************************************************)
(* working_main.py reconcile_transactions: exact GSTIN + reference match,  *)
(* first acceptable tally row wins                                         *)
(***************************************************************************)
gstin_match(g, t) == g.gstin = t.gstin /\ g.gstin # <<>>
ref_match(g, t) == g.reference = t.reference /\ g.reference # <<>>
\* abs(gstr2b_amount - tally_amount) < 0.01, amounts in hundredths
amount_match(g, t) == Abs(g.amount - t.amount) < 1

\* total_score of the inner loop body; Zero stands for the "continue" branch
total_score(g, t) ==
    IF gstin_match(g, t) /\ ref_match(g, t) /\ amount_match(g, t) THEN One
    ELSE IF gstin_match(g, t) /\ ref_match(g, t) THEN Pct(90)
    ELSE Zero

WorkingSkip ==
    /\ engine = "working" /\ pc = "scan"
    /\ i <= Len(gstr2b_df) /\ j <= Len(tally_df)
    /\ IsConsumed(j, matched_tally_indices)
    /\ j' = j + 1
    /\ UNCHANGED <<engine, gstr2b_df, tally_df, threshold, pc, i, best_match, best_score,
                   best_tally_idx, matches, matched_gstr2b_indices, matched_tally_indices,
                   result, prev>>
    /\ UNCHANGED aux

\* inner loop body: append and break on the first row scoring >= 0.9
WorkingCompare ==
    /\ engine = "working" /\ pc = "scan"
    /\ i <= Len(gstr2b_df) /\ j <= Len(tally_df)
    /\ ~IsConsumed(j, matched_tally_indices)
    /\ LET score == total_score(gstr2b_df[i], tally_df[j]) IN
         IF score # Zero /\ RGe(score, Pct(90))
         THEN /\ matches' = RecordMatch(matches,
                               [gstr2b_idx |-> i, tally_idx |-> j, match_score |-> score])
              /\ matched_gstr2b_indices' = MarkMatched(matched_gstr2b_indices, i)
              /\ matched_tally_indices' = MarkMatched(matched_tally_indices, j)
              /\ i' = i + 1
              /\ j' = 1
         ELSE /\ j' = j + 1
              /\ UNCHANGED <<i, matches, matched_gstr2b_indices, matched_tally_indices>>
    /\ UNCHANGED <<engine, gstr2b_df, tally_df, threshold, pc, best_match, best_score,
                   best_tally_idx, result, prev>>
    /\ UNCHANGED aux

\* inner loop exhausted without a break
WorkingRowEnd ==
    /\ engine = "working" /\ pc = "scan"
    /\ i <= Len(gstr2b_df) /\ j > Len(tally_df)
    /\ i' = i + 1
    /\ j' = 1
    /\ UNCHANGED <<engine, gstr2b_df, tally_df, threshold, pc, best_match, best_score,
                   best_tally_idx, matches, matched_gstr2b_indices, matched_tally_indices,
                   result, prev>>
    /\ UNCHANGED aux

\* mutation: the row at index 1 is left out of every sum
RECURSIVE SumAmountSkipsOne(_, _)
SumAmountSkipsOne(df, idx) ==
    IF idx \ {1} = {} THEN 0
    ELSE LET k == CHOOSE k \in idx \ {1} : TRUE IN
         df[k].amount + SumAmountSkipsOne(df, idx \ {1, k})

RECURSIVE SumAmount(_, _)
SumAmount(df, idx) ==
    IF idx = {} THEN 0
    ELSE LET k == CHOOSE k \in idx : TRUE IN df[k].amount + SumAmount(df, idx \ {k})

SeqToSet(sq) == { sq[k] : k \in 1 .. Len(sq) }

\* mutation: the smallest difference is reported
RECURSIVE MaxOfSmallest(_)
MaxOfSmallest(S) ==
    IF S = {} THEN 0
    ELSE CHOOSE x \in S : \A y \in S : x <= y

RECURSIVE MaxOf(_)
MaxOf(S) ==
    IF S = {} THEN 0
    ELSE LET x == CHOOSE x \in S : TRUE
             m == MaxOf(S \ {x})
         IN  IF x > m THEN x ELSE m

\* working_main.py lines 524-585
WorkingResult(ms, ga, ta, A, B) ==
    LET unmatched_gstr2b == Unmatched(Len(A), ga, 1)
        unmatched_tally == Unmatched(Len(B), ta, 1)
        gstr2b_total == SumAmount(A, 1 .. Len(A))
        tally_total == SumAmount(B, 1 .. Len(B))
        amount_differences ==
            [ k \in 1 .. Len(ms) |->
                Abs(A[ms[k].gstr2b_idx].amount - B[ms[k].tally_idx].amount) ]
        total_records == Len(A) + Len(B)
        total_matched_records == Len(ms) * 2
    IN  [ status |-> "returned",
          matches |-> ms,
          metrics |-> [ total_records |-> total_records,
                        total_matches |-> Len(ms),
                        total_matched_records |-> total_matched_records,
                        total_unmatched_records |->
                            Len(unmatched_gstr2b) + Len(unmatched_tally),
                        match_rate |-> IF total_records > 0
                                       THEN Rat(total_matched_records * 100, total_records)
                                       ELSE Zero,
                        perfect_amount_matches |->
                            Cardinality({ k \in 1 .. Len(ms) : amount_differences[k] < 1 }),
                        high_confidence |-> high_confidence(ms),
                        medium_confidence |-> medium_confidence(ms),
                        low_confidence |-> low_confidence(ms),
                        average_score |-> IF Len(ms) > 0
                                          THEN RMul(SumScores(ms), Rat(1, Len(ms)))
                                          ELSE Zero,
                        gstr2b_total |-> gstr2b_total,
                        tally_total |-> tally_total,
                        matched_gstr2b_total |-> IF ga # {} THEN SumAmount(A, ga) ELSE 0,
                        matched_tally_total |-> IF ta # {} THEN SumAmount(B, ta) ELSE 0,
                        unmatched_gstr2b_total |->
                            IF Len(unmatched_gstr2b) > 0
                            THEN SumAmount(A, SeqToSet(unmatched_gstr2b)) ELSE 0,
                        unmatched_tally_total |->
                            IF Len(unmatched_tally) > 0
                            THEN SumAmount(B, SeqToSet(unmatched_tally)) ELSE 0,
                        total_variance |-> Abs(gstr2b_total - tally_total),
                        total_amount_differences |->
                            LET RECURSIVE S(_)
                                S(k) == IF k = 0 THEN 0 ELSE amount_differences[k] + S(k - 1)
                            IN  S(Len(ms)),
                        largest_discrepancy |-> MaxOf(SeqToSet(amount_differences)),
                        unmatched_total |-> Len(unmatched_gstr2b) + Len(unmatched_tally) ],
          unmatched_gstr2b |-> unmatched_gstr2b,
          unmatched_tally |-> unmatched_tally ]

WorkingFinish ==
    /\ engine = "working" /\ pc = "scan"
    /\ i > Len(gstr2b_df)
    /\ result' = WorkingResult(matches, matched_gstr2b_indices, matched_tally_indices,
                               gstr2b_df, tally_df)
    /\ pc' = "done"
    /\ UNCHANGED <<engine, gstr2b_df, tally_df, threshold, i, j, best_match, best_score,
                   best_tally_idx, matches, matched_gstr2b_indices, matched_tally_indices,
                   prev>>
    /\ UNCHANGED aux

(***************************************************************************)
(* reconciliation.py: Levenshtein ratio, duplicate finder, masked matcher  *)
(***************************************************************************)
RECURSIVE lcs(_, _)
lcs(a, b) ==
    IF a = <<>> \/ b = <<>> THEN 0
    ELSE IF Head(a) = Head(b) THEN 1 + lcs(Tail(a), Tail(b))
    ELSE LET x == lcs(Tail(a), b)
             y == lcs(a, Tail(b))
         IN  IF x >= y THEN x ELSE y

\* Levenshtein.ratio: (|a| + |b| - indel distance) / (|a| + |b|), 1.0 for two empty strings
levenshtein_ratio(a, b) ==
    IF Len(a) + Len(b) = 0 THEN One
    ELSE Rat(2 * lcs(a, b), Len(a) + Len(b))

\* calculate_similarity: the ratio of the upper-cased strings (a string is never NaN)
calculate_similarity(str1, str2) == levenshtein_ratio(upper(str1), upper(str2))

\* default match_config; amount_tolerance 1.0 is 100 hundredths
amount_tolerance == 100
recon_date_window == 3

\* "if match_config is None": the defaults the matcher and the detector read
default_match_config ==
    [ amount_tolerance |-> amount_tolerance, date_window |-> recon_date_window,
      vendor_similarity |-> Pct(85), ref_similarity |-> Pct(70) ]

\* .index.tolist() of a masked frame: the selected indices in index order
RECURSIVE IndexList(_)
IndexList(S) ==
    IF S = {} THEN <<>>
    ELSE LET k == CHOOSE x \in S : \A y \in S : x <= y
         IN  <<k>> \o IndexList(S \ {k})

\* mutation: the "df.index != i" mask is left out
NearDuplicateSelf(df, p, q, tolerance, window) ==
    /\ Abs(df[q].date - df[p].date) <= window
    /\ Abs(df[q].amount - df[p].amount) <= tolerance

NearDuplicate(df, p, q, tolerance, window) ==
    /\ Abs(df[q].date - df[p].date) <= window
    /\ Abs(df[q].amount - df[p].amount) <= tolerance
    /\ q # p

find_duplicates(df, tolerance, window) ==
    LET dupes(p) ==
            IndexList({ q \in 1 .. Len(df) : NearDuplicate(df, p, q, tolerance, window) })
    IN  [ p \in { p \in 1 .. Len(df) : dupes(p) # <<>> } |-> dupes(p) ]

\* calculate_match_score: weighted sum of the four 0..1 scores
calculate_match_score(gstr_row, tally_row) ==
    LET amount == IF Abs(gstr_row.amount - tally_row.amount) <= match_config.amount_tolerance
                  THEN One ELSE Zero
        date == IF Abs(gstr_row.date - tally_row.date) <= match_config.date_window
                THEN One ELSE Zero
        vendor == calculate_similarity(gstr_row.vendor, tally_row.vendor)
        reference == calculate_similarity(gstr_row.reference, tally_row.reference)
    IN  RAdd(RAdd(RAdd(RMul(amount, Pct(40)), RMul(date, Pct(30))),
                  RMul(vendor, Pct(20))), RMul(reference, Pct(10)))

\* tally[date_mask & amount_mask & unmatched_mask], in index order
potential_matches(gstr_row, tally, matched) ==
    IndexList({ k \in 1 .. Len(tally) :
                  /\ Abs(tally[k].date - gstr_row.date) <= match_config.date_window
                  /\ Abs(tally[k].amount - gstr_row.amount) <= match_config.amount_tolerance
                  /\ k \notin matched })

\* the loop over potential_matches: strictly better score replaces the best
RECURSIVE BestOf(_, _, _, _)
BestOf(gstr_row, tally, cands, best) ==
    IF cands = <<>> THEN best
    ELSE LET k == Head(cands)
             match_score == calculate_match_score(gstr_row, tally[k])
         IN  IF RGt(match_score, best.match_score)
             THEN BestOf(gstr_row, tally, Tail(cands),
                         [tally_idx |-> k, match_score |-> match_score])
             ELSE BestOf(gstr_row, tally, Tail(cands), best)

\* one iteration of "for idx, gstr_row in gstr2b.iterrows()"; the 'matched'
\* columns of the two copies are the two index sets
ReconRow ==
    /\ engine = "recon" /\ pc = "scan"
    /\ i <= Len(gstr2b_df)
    /\ LET cands == potential_matches(gstr2b_df[i], tally_df, matched_tally_indices)
           best == BestOf(gstr2b_df[i], tally_df, cands,
                          [tally_idx |-> None, match_score |-> Zero])
       IN  IF cands # <<>> /\ RGe(best.match_score, Pct(80))
           THEN /\ matches' = Append(matches,
                                 [gstr2b_idx |-> i, tally_idx |-> best.tally_idx,
                                  match_score |-> best.match_score])
                /\ matched_gstr2b_indices' = matched_gstr2b_indices \cup {i}
                /\ matched_tally_indices' = matched_tally_indices \cup {best.tally_idx}
           ELSE UNCHANGED <<matches, matched_gstr2b_indices, matched_tally_indices>>
    /\ i' = i + 1
    /\ UNCHANGED <<engine, gstr2b_df, tally_df, threshold, pc, j, best_match, best_score,
                   best_tally_idx, result, prev>>
    /\ UNCHANGED aux

RECURSIVE MinScore(_)
MinScore(ms) ==
    IF Len(ms) = 1 THEN ms[1].match_score
    ELSE LET m == MinScore(Tail(ms)) IN
         IF RLt(ms[1].match_score, m) THEN ms[1].match_score ELSE m

RECURSIVE MaxScore(_)
MaxScore(ms) ==
    IF Len(ms) = 1 THEN ms[1].match_score
    ELSE RMax(ms[1].match_score, MaxScore(Tail(ms)))

\* reconciliation.py lines 192-255
ReconResult(ms, ga, ta, A, B) ==
    [ status |-> "returned",
      matches |-> ms,
      unmatched_gstr2b |-> Unmatched(Len(A), ga, 1),
      unmatched_tally |-> Unmatched(Len(B), ta, 1),
      metrics |->
          IF ms # <<>>
          THEN [ total_matches |-> Len(ms),
                 high_confidence |-> CountAtLeast(ms, Pct(90)),
                 medium_confidence |-> CountBetween(ms, Pct(80), Pct(90)),
                 low_confidence |-> CountBelow(ms, Pct(80)),
                 average_score |-> RMul(SumScores(ms), Rat(1, Len(ms))),
                 min_score |-> MinScore(ms),
                 max_score |-> MaxScore(ms) ]
          ELSE [ total_matches |-> 0, high_confidence |-> 0, medium_confidence |-> 0,
                 low_confidence |-> 0, average_score |-> Zero, min_score |-> Zero,
                 max_score |-> Zero ],
      duplicates |->
          [ gstr2b |-> find_duplicates(A, match_config.amount_tolerance,
                                       match_config.date_window),
            tally |-> find_duplicates(B, match_config.amount_tolerance,
                                      match_config.date_window) ] ]

ReconFinish ==
    /\ engine = "recon" /\ pc = "scan"
    /\ i > Len(gstr2b_df)
    /\ result' = ReconResult(matches, matched_gstr2b_indices, matched_tally_indices,
                             gstr2b_df, tally_df)
    /\ pc' = "done"
    /\ UNCHANGED <<engine, gstr2b_df, tally_df, threshold, i, j, best_match, best_score,
                   best_tally_idx, matches, matched_gstr2b_indices, matched_tally_indices,
                   prev>>
    /\ UNCHANGED aux

(***************************************************************************)
(* One call of reconcile_transactions on ingested frames                   *)
(***************************************************************************)
\* nothing outside the reconciliation call is in use
ConfigIdle == match_config = default_match_config
IngestIdle == raw_df = NoResult /\ processed = NoResult
DupIdle == dup_df = <<>> /\ duplicates = NoResult
SimIdle == sim_a = <<>> /\ sim_b = <<>> /\ similarity = NoResult
BatchIdle == transactions = <<>> /\ batch = <<>> /\ source = "" /\ saved = <<>>
DbIdle == session = <<>> /\ period_date = NoResult /\ period = NoResult /\ BatchIdle
UploadIdle == disk = <<>> /\ requests = <<>>
FactorIdle == factor_probe = NoResult /\ factor_scores = NoResult
AuthIdle ==
    /\ token = NoResult /\ auth0 = NoResult /\ current_user = NoResult
    /\ upload_started = FALSE
RestIdle == FactorIdle /\ AuthIdle
AuxIdle ==
    ConfigIdle /\ IngestIdle /\ DupIdle /\ SimIdle /\ DbIdle /\ UploadIdle /\ RestIdle

FreshCall ==
    /\ pc = "scan"
    /\ i = 1 /\ j = 1
    /\ best_match = NoMatch /\ best_score = Zero /\ best_tally_idx = None
    /\ matches = <<>>
    /\ matched_gstr2b_indices = {}
    /\ matched_tally_indices = {}
    /\ result = NoResult
    /\ prev = NoResult

Init ==
    /\ engine \in {"main", "working", "recon"}
    /\ gstr2b_df \in SeqsUpTo(RecordsOf(engine), MaxA)
    /\ tally_df \in SeqsUpTo(RecordsOf(engine), MaxB)
    /\ threshold = min_match_threshold
    /\ FreshCall
    /\ AuxIdle

Next ==
    \/ MainSkip
    \/ MainCompare
    \/ MainCommit
    \/ MainFinish
    \/ WorkingSkip
    \/ WorkingCompare
    \/ WorkingRowEnd
    \/ WorkingFinish
    \/ ReconRow
    \/ ReconFinish

Spec == Init /\ [][Next]_vars

(***************************************************************************)
(* A server process calling main.reconcile_transactions once per upload:   *)
(* later calls run on the same two frames or on the frames swapped, with   *)
(* the same or another minimum match threshold.  prev keeps the first      *)
(* completed call; prev.between records that a call with other inputs or   *)
(* another threshold has completed since.                                  *)
(***************************************************************************)
Thresholds == {min_match_threshold, Pct(95)}

InvokeRecords ==
    { Row(0, 10000, VendorV, RefA), Row(44, 10000, VendorV, RefA),
      Row(0, 10000, VendorV, RefB) }

SameCall(p) ==
    /\ p.gstr2b_df = gstr2b_df
    /\ p.tally_df = tally_df
    /\ p.threshold = threshold

Reinvoke ==
    /\ engine = "main" /\ pc = "done"
    /\ prev' = IF prev = NoResult
               THEN [ status |-> "kept", gstr2b_df |-> gstr2b_df, tally_df |-> tally_df,
                      threshold |-> threshold, result |-> result, between |-> FALSE ]
               ELSE [ prev EXCEPT !.between = @ \/ ~SameCall(prev) ]
    /\ \E swap \in BOOLEAN :
         /\ gstr2b_df' = IF swap THEN tally_df ELSE gstr2b_df
         /\ tally_df' = IF swap THEN gstr2b_df ELSE tally_df
    /\ threshold' \in Thresholds
    /\ pc' = "scan"
    /\ result' = NoResult
    /\ CallReset
    /\ UNCHANGED engine
    /\ UNCHANGED aux

InitInvoke ==
    /\ engine = "main"
    /\ gstr2b_df \in SeqsUpTo(InvokeRecords, MaxA)
    /\ tally_df \in SeqsUpTo(InvokeRecords, MaxB)
    /\ threshold \in Thresholds
    /\ FreshCall
    /\ AuxIdle

NextInvoke ==
    \/ MainSkip
    \/ MainCompare
    \/ MainCommit
    \/ MainFinish
    \/ Reinvoke

SpecInvoke == InitInvoke /\ [][NextInvoke]_vars

(***************************************************************************)
(* The composite score on its own: one gstr2b row against one tally row,   *)
(* over field values that reach every branch of the four factors           *)
(***************************************************************************)
NoRef == <<>>
Ref10 == <<1, 2, 3, 4, 5, 6, 7, 8, 9, 10>>
Ref10x == <<1, 2, 3, 4, 5, 6, 7, 8, 9, 11>>
Ref5 == <<1, 2, 3, 4, 5>>
Ref5x == <<1, 2, 3, 4, 6>>
VendorV1 == <<7, 8, 1>>
VendorX == <<7, 9>>

ScoreAnchors ==
    { Row(0, 10000, v, r) : v \in {VendorV, NoRef}, r \in {NoRef, Ref10, Ref5} }

ScoreProbes ==
    { Row(d, a, v, r) :
        d \in {0, 15, 30, 44},
        a \in {9000, 9995, 10000, 10005, 10200, 11000, 20000},
        v \in {NoRef, VendorV, VendorV1, VendorX, VendorW},
        r \in {NoRef, Ref10, Ref10x, Ref5, Ref5x} }

InitScore ==
    /\ engine = "main"
    /\ gstr2b_df \in { <<r>> : r \in ScoreAnchors }
    /\ tally_df \in { <<r>> : r \in ScoreProbes }
    /\ threshold = min_match_threshold
    /\ FreshCall
    /\ AuxIdle

NextScore ==
    \/ MainCompare
    \/ MainCommit
    \/ MainFinish

SpecScore == InitScore /\ [][NextScore]_vars

(***************************************************************************)
(* Properties                                                              *)
(***************************************************************************)
MatchedA(ms) == { ms[k].gstr2b_idx : k \in 1 .. Len(ms) }
MatchedB(ms) == { ms[k].tally_idx : k \in 1 .. Len(ms) }
PairsOf(ms) == { <<ms[k].gstr2b_idx, ms[k].tally_idx>> : k \in 1 .. Len(ms) }
Returned == pc = "done"

\* C1: when main or working_main reconcile_transactions has returned, the
\* matched and unmatched indices partition each side, both matched sets have
\* as many elements as there are matches, and no record is missing.
C1_Partition ==
    (Returned /\ engine \in {"main", "working"}) =>
        LET mA == MatchedA(result.matches)
            mB == MatchedB(result.matches)
            uA == SeqToSet(result.unmatched_gstr2b)
            uB == SeqToSet(result.unmatched_tally)
        IN  /\ mA \cup uA = 1 .. Len(gstr2b_df)
            /\ mA \cap uA = {}
            /\ mB \cup uB = 1 .. Len(tally_df)
            /\ mB \cap uB = {}
            /\ Cardinality(mA) = Len(result.matches)
            /\ Cardinality(mB) = Len(result.matches)
            /\ Len(gstr2b_df) = Cardinality(mA) + Len(result.unmatched_gstr2b)
            /\ Len(tally_df) = Cardinality(mB) + Len(result.unmatched_tally)

C1_Witness ==
    /\ Returned /\ engine = "main"
    /\ Len(result.matches) = 1
    /\ Len(result.unmatched_gstr2b) = 1
    /\ Len(result.unmatched_tally) = 1

\* C2: in every state of a matching pass no gstr2b index and no tally index
\* occurs in two recorded matches.
C2_NoIndexTwice ==
    \A p, q \in 1 .. Len(matches) :
        p # q => /\ matches[p].gstr2b_idx # matches[q].gstr2b_idx
                 /\ matches[p].tally_idx # matches[q].tally_idx

\* the second gstr2b row was eligible for the tally row the first one took
C2_Witness ==
    /\ engine = "main" /\ pc = "scan"
    /\ Len(matches) = 2
    /\ RGe(composite_score(gstr2b_df[2], tally_df[matches[1].tally_idx]), threshold)

\* C3: a recorded match stays, unchanged and at its place, in every later
\* state and in the returned result, and no later match takes its tally row.
C3_Step ==
    engine = "main" =>
        /\ Len(matches') >= Len(matches)
        /\ SubSeq(matches', 1, Len(matches)) = matches
        /\ \A k \in (Len(matches) + 1) .. Len(matches') :
               matches'[k].tally_idx \notin MatchedB(matches)
        /\ (pc' = "done" => result'.matches = matches')

C3_Irrevocable == [][C3_Step]_vars

\* a later gstr2b row scores higher against a consumed tally row than the
\* match that consumed it
C3_Witness ==
    /\ engine = "main" /\ Returned
    /\ \E k \in 1 .. Len(result.matches) :
         \E a \in 1 .. Len(gstr2b_df) :
            /\ a > result.matches[k].gstr2b_idx
            /\ RGt(composite_score(gstr2b_df[a], tally_df[result.matches[k].tally_idx]),
                   result.matches[k].match_score)

\* C4: main.py serves the gstr2b rows in index order; leaving row i it has
\* recorded a match iff some unconsumed tally row scores >= 0.5 against it,
\* and that match is the unconsumed row of highest score, the earliest one
\* among equals.
C4_Step ==
    engine = "main" =>
        /\ i' \in {i, i + 1}
        /\ (i' = i + 1 =>
              LET sc(k) == composite_score(gstr2b_df[i], tally_df[k])
                  eligible == { k \in 1 .. Len(tally_df) :
                                  /\ k \notin matched_tally_indices
                                  /\ RGe(sc(k), min_match_threshold) }
              IN  IF eligible = {}
                  THEN /\ matches' = matches
                       /\ i \notin matched_gstr2b_indices'
                  ELSE \E b \in eligible :
                          /\ \A k \in eligible :
                                 RGt(sc(b), sc(k)) \/ (sc(b) = sc(k) /\ b <= k)
                          /\ matches' = Append(matches, [ gstr2b_idx |-> i, tally_idx |-> b,
                                                          match_score |-> sc(b) ])
                          /\ matched_tally_indices' = matched_tally_indices \cup {b})

C4_GreedyChoice == [][C4_Step]_vars

\* the first gstr2b row took the second tally row although the first was eligible
C4_Witness ==
    /\ engine = "main" /\ Returned
    /\ Len(result.matches) >= 1
    /\ result.matches[1].gstr2b_idx = 1
    /\ result.matches[1].tally_idx = 2
    /\ RGe(composite_score(gstr2b_df[1], tally_df[1]), min_match_threshold)

\* eligibility of tally row b for gstr2b row a, per engine
EligiblePair(a, b) ==
    IF engine = "main"
    THEN RGe(composite_score(gstr2b_df[a], tally_df[b]), threshold)
    ELSE /\ Abs(tally_df[b].date - gstr2b_df[a].date) <= match_config.date_window
         /\ Abs(tally_df[b].amount - gstr2b_df[a].amount) <= match_config.amount_tolerance
         /\ RGe(calculate_match_score(gstr2b_df[a], tally_df[b]), Pct(80))

\* C7: when tally row b is the only eligible candidate of gstr2b rows a1 < a2
\* and of no other row, a1 is paired with b and a2 stays unmatched
\* (main.py and reconciliation.py).
C7_EarlierWins ==
    (Returned /\ engine \in {"main", "recon"}) =>
        \A a1, a2 \in 1 .. Len(gstr2b_df) : \A b \in 1 .. Len(tally_df) :
            ( /\ a1 < a2
              /\ { a \in 1 .. Len(gstr2b_df) : EligiblePair(a, b) } = {a1, a2}
              /\ { k \in 1 .. Len(tally_df) : EligiblePair(a1, k) } = {b}
              /\ { k \in 1 .. Len(tally_df) : EligiblePair(a2, k) } = {b} )
            => /\ <<a1, b>> \in PairsOf(result.matches)
               /\ a2 \notin MatchedA(result.matches)
               /\ a2 \in SeqToSet(result.unmatched_gstr2b)

\* the later row would have scored higher
C7_Witness ==
    /\ engine = "main" /\ Returned
    /\ Len(gstr2b_df) = 2 /\ Len(tally_df) = 1
    /\ EligiblePair(1, 1) /\ EligiblePair(2, 1)
    /\ RGt(composite_score(gstr2b_df[2], tally_df[1]),
           composite_score(gstr2b_df[1], tally_df[1]))
    /\ PairsOf(result.matches) = {<<1, 1>>}

RECURSIVE TotalOf(_)
TotalOf(df) == IF df = <<>> THEN 0 ELSE Head(df).amount + TotalOf(Tail(df))

AllIndices(df) == [ k \in 1 .. Len(df) |-> k ]

NoMatchesReported ==
    /\ result.matches = <<>>
    /\ result.metrics.total_matches = 0
    /\ result.metrics.high_confidence = 0
    /\ result.metrics.medium_confidence = 0
    /\ result.metrics.low_confidence = 0
    /\ result.metrics.average_score = Zero
    /\ (engine = "working" =>
          /\ result.metrics.total_matched_records = 0
          /\ result.metrics.matched_gstr2b_total = 0
          /\ result.metrics.matched_tally_total = 0
          /\ result.metrics.total_amount_differences = 0
          /\ result.metrics.largest_discrepancy = 0)

\* C8: with an empty tally side (main.py, working_main.py) the call returns,
\* with no match, every gstr2b row unmatched, zero matched subtotals and the
\* unmatched gstr2b total equal to the gstr2b grand total; symmetrically for
\* an empty gstr2b side.
C8_EmptySide ==
    (engine \in {"main", "working"} /\ (tally_df = <<>> \/ gstr2b_df = <<>>)) =>
        /\ (~Returned => ENABLED Next)
        /\ (Returned =>
              /\ NoMatchesReported
              /\ result.unmatched_gstr2b = AllIndices(gstr2b_df)
              /\ result.unmatched_tally = AllIndices(tally_df)
              /\ result.metrics.unmatched_total = Len(gstr2b_df) + Len(tally_df)
              /\ (engine = "working" =>
                    /\ result.metrics.gstr2b_total = TotalOf(gstr2b_df)
                    /\ result.metrics.tally_total = TotalOf(tally_df)
                    /\ result.metrics.unmatched_gstr2b_total = TotalOf(gstr2b_df)
                    /\ result.metrics.unmatched_tally_total = TotalOf(tally_df)))

C8_Witness ==
    /\ engine = "working" /\ Returned
    /\ tally_df = <<>>
    /\ Len(gstr2b_df) = 2
    /\ result.metrics.unmatched_gstr2b_total = TotalOf(gstr2b_df)

SameInputs(p) == p.gstr2b_df = gstr2b_df /\ p.tally_df = tally_df

C6_Deterministic ==
    (Returned /\ prev # NoResult /\ SameCall(prev)) => result = prev.result

C6_Witness ==
    /\ Returned /\ prev # NoResult /\ SameCall(prev)
    /\ prev.between
    /\ result.matches # <<>>
    /\ result.unmatched_gstr2b # <<>>

IdenticalRows(g, t) ==
    /\ g.reference = t.reference
    /\ g.amount = t.amount
    /\ g.date = t.date
    /\ g.vendor = t.vendor

TopTier(g, t) ==
    /\ ref_contribution(similarity_score(g.reference, t.reference)) = Pct(65)
    /\ Len(result.matches) = 1
    /\ RGe(result.matches[1].match_score, Pct(95))
    /\ result.metrics.high_confidence = 1

ScoreWithinBudget(g, t) ==
    /\ RLe(composite_score(g, t), RAdd(RAdd(RAdd(Pct(65), Pct(25)), Pct(8)), Pct(2)))
    /\ RLe(composite_score(g, t), One)
    /\ RLe(best_score, One)
    /\ \A k \in 1 .. Len(matches) : RLe(matches[k].match_score, One)

\* C9 as stated: no pair scores above 1.00, and two rows identical in
\* reference, amount, date and vendor get the 0.65 reference bonus and a
\* top-tier match.
C9_ScoreBound ==
    LET g == gstr2b_df[1]
        t == tally_df[1]
    IN  /\ ScoreWithinBudget(g, t)
        /\ ((Returned /\ IdenticalRows(g, t)) => TopTier(g, t))

\* C9 amended: the same, for identical rows whose reference is not empty.
C9_ScoreBoundNonEmptyRef ==
    LET g == gstr2b_df[1]
        t == tally_df[1]
    IN  /\ ScoreWithinBudget(g, t)
        /\ ((Returned /\ IdenticalRows(g, t) /\ g.reference # <<>>) => TopTier(g, t))

C9_Witness ==
    /\ Returned
    /\ IdenticalRows(gstr2b_df[1], tally_df[1])
    /\ gstr2b_df[1].reference # <<>>
    /\ result.matches[1].match_score = One

BeyondWindow(g, t) ==
    /\ g.reference = t.reference
    /\ g.amount = t.amount
    /\ Abs(g.date - t.date) > date_window

ReducedMatch(g, t) ==
    /\ date_contribution(g.date, t.date) = Zero
    /\ RLt(composite_score(g, t), composite_score(g, [t EXCEPT !.date = g.date]))
    /\ Len(result.matches) = 1
    /\ result.matches[1].match_score = composite_score(g, t)
    /\ RGe(result.matches[1].match_score, min_match_threshold)

\* C10 as stated: a pair with identical reference and amount whose dates lie
\* more than date_window days apart gets nothing from the date factor, and
\* is still matched, at a score >= 0.5 that is below its equal-date score.
C10_DateGapStillMatches ==
    (Returned /\ BeyondWindow(gstr2b_df[1], tally_df[1]))
        => ReducedMatch(gstr2b_df[1], tally_df[1])

\* C10 amended: the same, for pairs whose identical reference is not empty.
C10_DateGapNonEmptyRef ==
    (Returned /\ BeyondWindow(gstr2b_df[1], tally_df[1]) /\ gstr2b_df[1].reference # <<>>)
        => ReducedMatch(gstr2b_df[1], tally_df[1])

C10_Witness ==
    /\ Returned
    /\ BeyondWindow(gstr2b_df[1], tally_df[1])
    /\ gstr2b_df[1].reference # <<>>
    /\ Abs(gstr2b_df[1].date - tally_df[1].date) = 44
    /\ Len(result.matches) = 1
    /\ RLt(result.matches[1].match_score, Pct(95))

(***************************************************************************)
(* Ingestion: main.py read_and_process_file and its cleaning helpers.      *)
(* Character codes: 1..26 upper-case letters, 101..126 the same letters in *)
(* lower case, 0 a blank.  A table is its set of column names (after the   *)
(* column mapping) and its rows, each row a record of cells; Missing is an  *)
(* absent cell (NaN), Cell(x) a cell holding x.  The cells of a column the *)
(* table does not have are Missing and never read.                         *)
(***************************************************************************)
Missing == [cell |-> "nan"]

Cell(x) == [cell |-> "value", v |-> x]

Space == 0

\* str.strip()
RECURSIVE strip(_)
strip(s) ==
    IF s = <<>> THEN s
    ELSE IF Head(s) = Space THEN strip(Tail(s))
    ELSE IF s[Len(s)] = Space THEN strip(SubSeq(s, 1, Len(s) - 1))
    ELSE s

\* str(float('nan')) is "nan"
NanText == <<114, 101, 114>>

\* clean_string_values: astype(str), strip, upper
clean_string_value(val) == upper(strip(IF val = Missing THEN NanText ELSE val.v))

\* a cell holding text that float() and every date format reject
Unparsed == [cell |-> "text"]

\* a cell holding the text " nan", which float() reads as the float NaN
NanCell == [cell |-> "nan text"]

\* the float NaN, which is no amount in hundredths
NaN == -1

\* clean_numeric_values: 0.0 for an absent cell and for text float() rejects,
\* else float(val)
clean_numeric_value(val) ==
    IF val = Missing THEN 0
    ELSE IF val = Unparsed THEN 0
    ELSE IF val = NanCell THEN NaN
    ELSE val.v

\* clean_date_values: NaT, which is no day number, for an absent cell and for
\* text no format parses
NaT == -1
clean_date_value(val) ==
    IF val = Missing \/ val = Unparsed THEN NaT ELSE val.v

required_cols == {"date", "amount", "vendor"}

\* the rows of df that survive dropna(subset=['date','amount']) and amount > 0,
\* each keeping its index label
\* mutation: amounts of zero are kept
RECURSIVE KeepValidFromZero(_, _)
KeepValidFromZero(rows, k) ==
    IF k > Len(rows) THEN <<>>
    ELSE IF rows[k].date # NaT /\ rows[k].amount # NaN /\ rows[k].amount >= 0
         THEN <<rows[k]>> \o KeepValidFromZero(rows, k + 1)
         ELSE KeepValidFromZero(rows, k + 1)

RECURSIVE KeepValid(_, _)
KeepValid(rows, k) ==
    IF k > Len(rows) THEN <<>>
    ELSE IF rows[k].date # NaT /\ rows[k].amount # NaN /\ rows[k].amount > 0
         THEN <<rows[k]>> \o KeepValid(rows, k + 1)
         ELSE KeepValid(rows, k + 1)

\* read_and_process_file after the file is parsed into a table
read_and_process_file(table) ==
    IF table.rows = <<>>
    THEN [status |-> "error", code |-> 400, rows |-> <<>>]
    ELSE IF required_cols \ table.columns # {}
    THEN [status |-> "error", code |-> 400, rows |-> <<>>]
    ELSE LET cleaned ==
                 [ k \in 1 .. Len(table.rows) |->
                     [ index |-> k,
                       date |-> clean_date_value(table.rows[k].date),
                       amount |-> clean_numeric_value(table.rows[k].amount),
                       vendor |-> clean_string_value(table.rows[k].vendor),
                       reference |->
                           IF "reference" \in table.columns
                           THEN clean_string_value(table.rows[k].reference)
                           ELSE <<>> ] ]
         IN  [status |-> "ok", code |-> 200, rows |-> KeepValid(cleaned, 1)]

MaxRows == 2

AllColumns == {"date", "amount", "vendor", "reference"}

\* a well-formed cell of each column
GoodCell(col) ==
    IF col = "date" THEN Cell(0)
    ELSE IF col = "amount" THEN Cell(10000)
    ELSE IF col = "vendor" THEN Cell(<<Space, 107, 8>>)
    ELSE Cell(<<101, 2>>)

\* cells a file can hold in each column
CellsOf(col) ==
    IF col = "date" THEN {Missing, Unparsed, GoodCell(col)}
    ELSE IF col = "amount" THEN {Missing, Unparsed, NanCell, Cell(0), Cell(-5000), GoodCell(col)}
    ELSE {Missing, GoodCell(col)}

ColumnCells(cols, col) == IF col \in cols THEN CellsOf(col) ELSE {Missing}

\* the cell of a column in a row that is complete
FullCell(cols, col) == IF col \in cols THEN GoodCell(col) ELSE Missing

\* rows that vary in one of date and amount, and rows that vary in vendor and
\* reference
RowsOver(cols) ==
    { [date |-> d, amount |-> FullCell(cols, "amount"),
       vendor |-> FullCell(cols, "vendor"),
       reference |-> FullCell(cols, "reference")] :
        d \in ColumnCells(cols, "date") }
    \cup
    { [date |-> FullCell(cols, "date"), amount |-> a,
       vendor |-> FullCell(cols, "vendor"),
       reference |-> FullCell(cols, "reference")] :
        a \in ColumnCells(cols, "amount") }
    \cup
    { [date |-> FullCell(cols, "date"), amount |-> FullCell(cols, "amount"),
       vendor |-> v, reference |-> r] :
        v \in ColumnCells(cols, "vendor"), r \in ColumnCells(cols, "reference") }

Tables ==
    UNION { { [columns |-> cols, rows |-> rows] :
                rows \in {<<>>} \cup SeqsUpTo(RowsOver(cols), MaxRows) } :
            cols \in SUBSET AllColumns }

ReconIdle ==
    /\ engine = "none" /\ gstr2b_df = <<>> /\ tally_df = <<>>
    /\ threshold = min_match_threshold /\ pc = "idle"
    /\ i = 1 /\ j = 1
    /\ best_match = NoMatch /\ best_score = Zero /\ best_tally_idx = None
    /\ matches = <<>>
    /\ matched_gstr2b_indices = {}
    /\ matched_tally_indices = {}
    /\ result = NoResult
    /\ prev = NoResult

ReadAndProcessFile ==
    /\ raw_df # NoResult /\ processed = NoResult
    /\ processed' = read_and_process_file(raw_df)
    /\ UNCHANGED <<raw_df, reconVars, configVars, restVars, dupVars, simVars, dbVars, uploadVars>>

InitIngest ==
    /\ raw_df \in Tables
    /\ processed = NoResult
    /\ ReconIdle /\ ConfigIdle /\ RestIdle /\ DupIdle /\ SimIdle /\ DbIdle /\ UploadIdle

NextIngest == ReadAndProcessFile

SpecIngest == InitIngest /\ [][NextIngest]_vars

LacksRequiredField(table) ==
    \/ AllColumns \ table.columns # {}
    \/ \E k \in 1 .. Len(table.rows) :
           \/ table.rows[k].date = Missing
           \/ table.rows[k].amount = Missing
           \/ table.rows[k].vendor = Missing
           \/ table.rows[k].reference = Missing

\* C11: a file in which some record lacks date, amount, vendor or reference is
\* rejected as a whole with an error; no frame is produced from it
C11_InvalidInputRejected ==
    (processed # NoResult /\ raw_df.rows # <<>> /\ LacksRequiredField(raw_df))
        => processed.status = "error"

(***************************************************************************)
(* Configuration: reconciliation.py reconcile_transactions takes the       *)
(* match_config of its caller as it is; main.py and working_main.py have   *)
(* no configuration argument.                                              *)
(***************************************************************************)
MatchConfigs ==
    { [ default_match_config EXCEPT !.date_window = w, !.vendor_similarity = v ] :
        w \in {recon_date_window, -1}, v \in {Pct(85), Pct(150)} }

InitConfig ==
    /\ engine = "recon"
    /\ gstr2b_df \in SeqsUpTo(ReconRecords, MaxA)
    /\ tally_df \in SeqsUpTo(ReconRecords, MaxB)
    /\ threshold = min_match_threshold
    /\ FreshCall
    /\ match_config \in MatchConfigs
    /\ IngestIdle /\ DupIdle /\ SimIdle /\ DbIdle /\ UploadIdle /\ RestIdle

NextConfig ==
    \/ ReconRow
    \/ ReconFinish

SpecConfig == InitConfig /\ [][NextConfig]_vars

InvalidConfig(cfg) ==
    \/ cfg.date_window < 0
    \/ ~(RLe(Zero, cfg.vendor_similarity) /\ RLe(cfg.vendor_similarity, One))
    \/ ~(RLe(Zero, cfg.ref_similarity) /\ RLe(cfg.ref_similarity, One))

\* C12: a call whose configuration has a threshold outside [0,1] or a negative
\* date window records no Match and ends in an error, not in a result
C12_ConfigurationRejected ==
    InvalidConfig(match_config) =>
        /\ matches = <<>>
        /\ Returned => result.status = "error"

(***************************************************************************)
(* Degenerate amounts: reconcile_transactions of main.py called on frames  *)
(* that hold zero amounts (the upload path filters them out beforehand).   *)
(***************************************************************************)
ZeroProbes ==
    { Row(d, a, v, r) :
        d \in {0, 15}, a \in {0, 10000}, v \in {VendorV, VendorX}, r \in {NoRef, Ref5, Ref5x} }

InitZero ==
    /\ engine = "main"
    /\ gstr2b_df \in { <<r>> : r \in ZeroProbes }
    /\ tally_df \in { <<r>> : r \in ZeroProbes }
    /\ threshold = min_match_threshold
    /\ FreshCall
    /\ AuxIdle

SpecZero == InitZero /\ [][NextScore]_vars

BothZero(g, t) == g.amount = 0 /\ t.amount = 0

\* the score of the three remaining factors
RestScore(g, t) ==
    RAdd(RAdd(ref_contribution(similarity_score(g.reference, t.reference)),
              date_contribution(g.date, t.date)),
         vendor_contribution(similarity_score(g.vendor, t.vendor)))

\* C13: when both amounts are zero the relative difference is taken as 1 without
\* dividing and the amount factor adds 0: the comparison completes with the sum
\* of the reference, date and vendor contributions as the pair's score, and the
\* pass returns the pair judged on that score alone
C13_ZeroAmounts ==
    BothZero(gstr2b_df[1], tally_df[1]) =>
        /\ (pc = "scan" /\ i = 1 /\ j = 2) =>
             best_score =
                 IF RGe(RestScore(gstr2b_df[1], tally_df[1]), min_match_threshold)
                 THEN RestScore(gstr2b_df[1], tally_df[1])
                 ELSE Zero
        /\ Returned =>
             result.matches =
                 IF RGe(RestScore(gstr2b_df[1], tally_df[1]), min_match_threshold)
                 THEN << [gstr2b_idx |-> 1, tally_idx |-> 1,
                          match_score |-> RestScore(gstr2b_df[1], tally_df[1])] >>
                 ELSE <<>>

C13_Witness ==
    /\ Returned
    /\ BothZero(gstr2b_df[1], tally_df[1])
    /\ Len(result.matches) = 1
    /\ RLt(result.matches[1].match_score, Pct(80))

(***************************************************************************)
(* Upload handler: main.py upload_files (working_main.py has the same      *)
(* steps).  The handler is a coroutine: it runs without interruption from  *)
(* one await to the next and other requests run while it is suspended, at  *)
(* "await bank_file.read()", "await ledger_file.read()" and                *)
(* "await asyncio.sleep(0.1)".  A file on disk is a table; opening it with *)
(* mode "wb" empties it, writing puts the rows at the start of the file    *)
(* over what is there.                                                     *)
(***************************************************************************)
Clients == {1, 2}

FileNames == {"a.csv", "b.csv"}

EmptyFile == [columns |-> {}, rows |-> <<>>]

RawRow(d, a, v, r) ==
    [date |-> Cell(d), amount |-> Cell(a), vendor |-> Cell(v), reference |-> Cell(r)]

FileOf(rows) == [columns |-> AllColumns, rows |-> rows]

\* the uploads of the clients: client 2 may send a two-row file whose rows are
\* near-duplicates of each other
UploadsOf(c) ==
    IF c = 1
    THEN { FileOf(<< RawRow(0, 10000, <<7, 8>>, <<101, 2>>) >>),
           FileOf(<< RawRow(44, 10000, <<7, 8>>, <<1, 2>>) >>) }
    ELSE { FileOf(<< RawRow(0, 10400, <<7, 8>>, <<1, 3>>) >>),
           FileOf(<< RawRow(0, 10400, <<7, 8>>, <<1, 3>>),
                     RawRow(0, 10400, <<7, 8>>, <<1, 2>>) >>) }

\* os.path.join(UPLOAD_FOLDER, f"gstr2b_{filename}") and f"tally_{filename}"
bank_path(req) == <<"gstr2b", req.bank_file.filename>>
ledger_path(req) == <<"tally", req.ledger_file.filename>>

Paths == {"gstr2b", "tally"} \X FileNames

\* f.write(content) on a handle at offset 0
Overlay(content, file) ==
    [ columns |-> content.columns,
      rows |-> content.rows \o SubSeq(file.rows, Len(content.rows) + 1, Len(file.rows)) ]

\* the "duplicates" entry of the response
response_duplicates == [gstr2b |-> <<>>, tally |-> <<>>]

\* the response dictionary built after reconcile_transactions returned
upload_response(req, reconciliation_results) ==
    [ status |-> "success",
      files |-> [bank |-> req.bank_file.filename, ledger |-> req.ledger_file.filename],
      metrics |-> reconciliation_results.metrics,
      reconciled |-> reconciliation_results.matches,
      unmatched_bank |-> reconciliation_results.unmatched_gstr2b,
      unmatched_ledger |-> reconciliation_results.unmatched_tally,
      duplicates |-> response_duplicates ]

\* open(bank_path, "wb"), then suspended in "await bank_file.read()"
UploadOpenBank(c) ==
    /\ pc = "idle" /\ requests[c].pc = "start"
    /\ disk' = [disk EXCEPT ![bank_path(requests[c])] = EmptyFile]
    /\ requests' = [requests EXCEPT ![c].pc = "bank_open"]
    /\ UNCHANGED <<reconVars, configVars, restVars, ingestVars, dupVars, simVars, dbVars>>

\* f.write(content) and close; open(ledger_path, "wb"), then suspended in
\* "await ledger_file.read()"
UploadWriteBank(c) ==
    /\ pc = "idle" /\ requests[c].pc = "bank_open"
    /\ disk' = [disk EXCEPT
                  ![bank_path(requests[c])] = Overlay(requests[c].bank_file.content, @),
                  ![ledger_path(requests[c])] = EmptyFile]
    /\ requests' = [requests EXCEPT ![c].pc = "ledger_open"]
    /\ UNCHANGED <<reconVars, configVars, restVars, ingestVars, dupVars, simVars, dbVars>>

\* f.write(content) and close, then suspended in "await asyncio.sleep(0.1)"
UploadWriteLedger(c) ==
    /\ pc = "idle" /\ requests[c].pc = "ledger_open"
    /\ disk' = [disk EXCEPT
                  ![ledger_path(requests[c])] = Overlay(requests[c].ledger_file.content, @)]
    /\ requests' = [requests EXCEPT ![c].pc = "sleeping"]
    /\ UNCHANGED <<reconVars, configVars, restVars, ingestVars, dupVars, simVars, dbVars>>

\* after the sleep: read_and_process_file on both paths; an HTTPException ends
\* the request, otherwise reconcile_transactions starts on the two frames
UploadRead(c) ==
    /\ pc = "idle" /\ requests[c].pc = "sleeping"
    /\ LET gstr2b == read_and_process_file(disk[bank_path(requests[c])])
           tally == read_and_process_file(disk[ledger_path(requests[c])])
       IN  IF gstr2b.status = "error" \/ tally.status = "error"
           THEN /\ requests' = [requests EXCEPT
                                  ![c].pc = "done",
                                  ![c].frames = [gstr2b |-> gstr2b, tally |-> tally],
                                  ![c].response = [status |-> "error", code |-> 400]]
                /\ UNCHANGED reconVars
           ELSE /\ requests' = [requests EXCEPT
                                  ![c].pc = "reconciling",
                                  ![c].frames = [gstr2b |-> gstr2b, tally |-> tally]]
                /\ engine' = "main"
                /\ gstr2b_df' = gstr2b.rows
                /\ tally_df' = tally.rows
                /\ pc' = "scan"
                /\ CallReset
                /\ UNCHANGED <<threshold, result, prev>>
    /\ UNCHANGED <<disk, configVars, restVars, ingestVars, dupVars, simVars, dbVars>>

\* reconcile_transactions returned: the response is built and sent, the call's
\* locals are gone
UploadRespond(c) ==
    /\ pc = "done" /\ requests[c].pc = "reconciling"
    /\ requests' = [requests EXCEPT
                      ![c].pc = "done",
                      ![c].response = upload_response(requests[c], result)]
    /\ engine' = "none" /\ gstr2b_df' = <<>> /\ tally_df' = <<>>
    /\ pc' = "idle"
    /\ result' = NoResult
    /\ CallReset
    /\ UNCHANGED <<threshold, prev>>
    /\ UNCHANGED <<disk, configVars, restVars, ingestVars, dupVars, simVars, dbVars>>

NewRequest(bank, bank_content, ledger, ledger_content) ==
    [ pc |-> "start",
      bank_file |-> [filename |-> bank, content |-> bank_content],
      ledger_file |-> [filename |-> ledger, content |-> ledger_content],
      frames |-> NoResult,
      response |-> NoResult ]

InitUpload ==
    /\ ReconIdle /\ ConfigIdle /\ RestIdle /\ IngestIdle /\ DupIdle /\ SimIdle /\ DbIdle
    /\ disk = [p \in Paths |-> EmptyFile]
    /\ requests \in
         { r \in [Clients -> { NewRequest(b, bc, l, lc) :
                                 b \in FileNames, l \in FileNames,
                                 bc \in UploadsOf(1) \cup UploadsOf(2),
                                 lc \in UploadsOf(1) \cup UploadsOf(2) }] :
             \A c \in Clients :
                 /\ r[c].bank_file.content \in UploadsOf(c)
                 /\ r[c].ledger_file.content \in UploadsOf(c)
                 /\ (c = 1 => r[c].bank_file.filename = "a.csv"
                              /\ r[c].ledger_file.filename = "a.csv") }

NextUpload ==
    \/ \E c \in Clients : UploadOpenBank(c)
    \/ \E c \in Clients : UploadWriteBank(c)
    \/ \E c \in Clients : UploadWriteLedger(c)
    \/ \E c \in Clients : UploadRead(c)
    \/ MainSkip
    \/ MainCompare
    \/ MainCommit
    \/ MainFinish
    \/ \E c \in Clients : UploadRespond(c)

SpecUpload == InitUpload /\ [][NextUpload]_vars

\* what read_and_process_file makes of the two files a request uploaded
OwnFrames(req) ==
    [ gstr2b |-> read_and_process_file(req.bank_file.content),
      tally |-> read_and_process_file(req.ledger_file.content) ]

\* C14: whatever the interleaving of the requests, a finished request has
\* reconciled exactly the frames of the two files it uploaded itself
C14_OwnFilesOnly ==
    \A c \in Clients :
        requests[c].pc = "done" => requests[c].frames = OwnFrames(requests[c])

\* C15: the response of a successful request carries, for each side, the map
\* find_duplicates yields on that side's frame, so a side holding two
\* near-duplicate rows has a non-empty map listing them
C15_DuplicatesReported ==
    \A c \in Clients :
        (requests[c].pc = "done" /\ requests[c].response.status = "success") =>
            /\ requests[c].response.duplicates.gstr2b =
                   find_duplicates(requests[c].frames.gstr2b.rows,
                                   amount_tolerance, recon_date_window)
            /\ requests[c].response.duplicates.tally =
                   find_duplicates(requests[c].frames.tally.rows,
                                   amount_tolerance, recon_date_window)

(***************************************************************************)
(* Duplicate detector: reconciliation.py find_duplicates called on its own *)
(***************************************************************************)
MaxDup == 3

DupRecords ==
    { Row(d, a, VendorV, RefA) : d \in {0, 3, 4}, a \in {10000, 10100, 10101} }

FindDuplicates ==
    /\ duplicates = NoResult
    /\ \E tolerance \in {0, amount_tolerance}, window \in {0, recon_date_window} :
         duplicates' = [ status |-> "returned", tolerance |-> tolerance,
                         date_window |-> window,
                         map |-> find_duplicates(dup_df, tolerance, window) ]
    /\ UNCHANGED <<dup_df, reconVars, configVars, restVars, ingestVars, simVars, dbVars, uploadVars>>

InitDup ==
    /\ dup_df \in SeqsUpTo(DupRecords, MaxDup)
    /\ duplicates = NoResult
    /\ ReconIdle /\ ConfigIdle /\ RestIdle /\ IngestIdle /\ SimIdle /\ DbIdle /\ UploadIdle

NextDup == FindDuplicates

SpecDup == InitDup /\ [][NextDup]_vars

\* the other rows within the tolerance and the window of row p
Near(p) ==
    { q \in (1 .. Len(dup_df)) \ {p} :
        /\ Abs(dup_df[q].amount - dup_df[p].amount) <= duplicates.tolerance
        /\ Abs(dup_df[q].date - dup_df[p].date) <= duplicates.date_window }

Listed(p) ==
    IF p \in DOMAIN duplicates.map THEN SeqToSet(duplicates.map[p]) ELSE {}

\* C16: find_duplicates has an entry exactly for the rows that have another row
\* within the tolerance and the window, the entry lists exactly those other
\* rows, each once, never the row itself, and listing is mutual
C16_DuplicateMap ==
    duplicates # NoResult =>
        /\ DOMAIN duplicates.map = { p \in 1 .. Len(dup_df) : Near(p) # {} }
        /\ \A p \in 1 .. Len(dup_df) :
             /\ Listed(p) = Near(p)
             /\ p \notin Listed(p)
             /\ p \in DOMAIN duplicates.map => Len(duplicates.map[p]) = Cardinality(Near(p))
             /\ \A q \in 1 .. Len(dup_df) : q \in Listed(p) <=> p \in Listed(q)

C16_Witness ==
    /\ duplicates # NoResult
    /\ Len(dup_df) = 3
    /\ Cardinality(DOMAIN duplicates.map) = 2
    /\ duplicates.tolerance = amount_tolerance
    /\ \E p \in DOMAIN duplicates.map : dup_df[p].amount = 10100

(***************************************************************************)
(* Metrics of the returned result                                          *)
(***************************************************************************)
\* C17: in the result of each engine every match is counted in exactly one
\* confidence tier: the three tier counts add up to total_matches, which is
\* the number of matches returned
C17_TiersPartition ==
    Returned =>
        /\ result.metrics.total_matches = Len(result.matches)
        /\ result.metrics.high_confidence + result.metrics.medium_confidence
               + result.metrics.low_confidence = result.metrics.total_matches

C17_Witness ==
    /\ Returned
    /\ engine = "working"
    /\ result.metrics.high_confidence = 1
    /\ result.metrics.medium_confidence = 1

\* |amount of the gstr2b row - amount of the tally row| of the k-th match
Discrepancy(k) ==
    Abs(gstr2b_df[result.matches[k].gstr2b_idx].amount
        - tally_df[result.matches[k].tally_idx].amount)

MaxStr == 4

\* the letters A and B and the lower-case a
SimChars == {1, 2, 101}

ComputeSimilarity ==
    /\ similarity = NoResult
    /\ similarity' = [ status |-> "returned",
                       similarity_score |-> similarity_score(sim_a, sim_b),
                       calculate_similarity |-> calculate_similarity(sim_a, sim_b) ]
    /\ UNCHANGED <<sim_a, sim_b, reconVars, configVars, restVars, ingestVars, dupVars, dbVars,
                   uploadVars>>

InitSim ==
    /\ sim_a \in SeqsUpTo(SimChars, MaxStr)
    /\ sim_b \in SeqsUpTo(SimChars, MaxStr)
    /\ similarity = NoResult
    /\ ReconIdle /\ ConfigIdle /\ RestIdle /\ IngestIdle /\ DupIdle /\ DbIdle /\ UploadIdle

NextSim == ComputeSimilarity

SpecSim == InitSim /\ [][NextSim]_vars

InUnit(x) == RLe(Zero, x) /\ RLe(x, One)

\* C19: both similarity functions give the same value with the arguments
\* swapped and with the arguments' case changed, a value in [0,1], and 0 when
\* either argument is empty
C19_SimilaritySymmetric ==
    similarity # NoResult =>
        /\ similarity.similarity_score = similarity_score(sim_b, sim_a)
        /\ similarity.calculate_similarity = calculate_similarity(sim_b, sim_a)
        /\ similarity.similarity_score = similarity_score(upper(sim_a), sim_b)
        /\ similarity.calculate_similarity = calculate_similarity(upper(sim_a), sim_b)
        /\ InUnit(similarity.similarity_score)
        /\ InUnit(similarity.calculate_similarity)
        /\ (sim_a = <<>> \/ sim_b = <<>>) =>
               /\ similarity.similarity_score = Zero
               /\ similarity.calculate_similarity = Zero

(***************************************************************************)
(* Periods: reconciliation_manager.py get_or_create_period on one database *)
(* session.  The table reconciliation_periods is the sequence of its rows  *)
(* in insertion order, the id of a row its position.                       *)
(***************************************************************************)
Date(y, m, d) == [year |-> y, month |-> m, day |-> d]

PeriodDates ==
    { Date(2025, 8, 31), Date(2025, 9, 1), Date(2025, 9, 15), Date(2025, 9, 20),
      Date(2025, 10, 5), Date(2026, 9, 15) }

\* mutation: the date is used as it is
period_startSameDay(d) == d

\* date(period_date.year, period_date.month, 1)
period_start(d) == Date(d.year, d.month, 1)

\* session.query(ReconciliationPeriod).filter(period == start).first()
FirstPeriod(rows, start) ==
    IF \E k \in 1 .. Len(rows) : rows[k].period = start
    THEN rows[CHOOSE k \in 1 .. Len(rows) :
                /\ rows[k].period = start
                /\ \A l \in 1 .. Len(rows) : rows[l].period = start => k <= l]
    ELSE NoResult

\* ReconciliationPeriod(period=period_start, status='in_progress') after the
\* commit: the id is the next row number, the statistics take their defaults
NewPeriod(id, start) ==
    [ status |-> "in_progress", id |-> id, period |-> start,
      total_transactions |-> 0, matched_transactions |-> 0,
      total_amount |-> 0, matched_amount |-> 0 ]

GetOrCreatePeriod ==
    \E d \in PeriodDates :
        LET found == FirstPeriod(session, period_start(d))
            created == NewPeriod(Len(session) + 1, period_start(d))
        IN  /\ period_date' = d
            /\ IF found # NoResult
               THEN /\ period' = found
                    /\ UNCHANGED session
               ELSE /\ session' = Append(session, created)
                    /\ period' = created
            /\ UNCHANGED <<transactions, batch, source, saved>>
            /\ UNCHANGED <<reconVars, configVars, restVars, ingestVars, dupVars, simVars, uploadVars>>

InitPeriod ==
    /\ session = <<>>
    /\ period_date = NoResult
    /\ period = NoResult
    /\ BatchIdle
    /\ ReconIdle /\ ConfigIdle /\ RestIdle /\ IngestIdle /\ DupIdle /\ SimIdle /\ UploadIdle

NextPeriod == GetOrCreatePeriod

SpecPeriod == InitPeriod /\ [][NextPeriod]_vars

SameMonth(d, e) == d.year = e.year /\ d.month = e.month

C20_Step ==
    \* the returned row is a row of the table, dated the first of the month asked for
    /\ \E k \in 1 .. Len(session') : session'[k] = period'
    /\ period'.period.day = 1
    /\ SameMonth(period'.period, period_date')
    \* a newly created row is in progress
    /\ Len(session') > Len(session) =>
           period' = session'[Len(session')] /\ period'.status = "in_progress"
    \* the rows already stored stay as they are
    /\ SubSeq(session', 1, Len(session)) = session
    \* at most one row per calendar month
    /\ \A k, l \in 1 .. Len(session') :
           SameMonth(session'[k].period, session'[l].period) => k = l
    \* the same month gives the same row as the call before
    /\ (period_date # NoResult /\ SameMonth(period_date, period_date')) =>
           period'.id = period.id

\* C20: every call of get_or_create_period returns a row of the table dated the
\* first day of the month of the date given, in progress when the call created
\* it; the table never holds two rows of one calendar month, and a call with a
\* date of the same month as the call before returns the same row
C20_OnePeriodPerMonth == [][C20_Step]_vars

C20_Witness ==
    /\ Len(session) = 2
    /\ period_date = Date(2025, 9, 20)
    /\ period.id = 1
    /\ period.period = Date(2025, 9, 1)

(***************************************************************************)
(* Transactions: reconciliation_manager.py save_transaction_batch on one   *)
(* database session.  The table transactions is the sequence of its rows   *)
(* in insertion order.  A column without a value holds Null; SQLAlchemy    *)
(* renders column == None as IS NULL, so Null compares equal to Null.      *)
(* The session autoflushes (sessionmaker default), so a query sees the     *)
(* rows added earlier in the same call.                                    *)
(***************************************************************************)
Null == [cell |-> "null"]

Sources == {"gstr2b", "tally"}

\* a transaction dictionary; .get(key) of an absent key is None
TransData(d, a, v, r) == [date |-> d, amount |-> a, vendor |-> v, reference |-> r]

TransDicts ==
    { TransData(Date(2025, 9, 15), 100000, Cell(VendorV), Cell(RefA)),
      TransData(Date(2025, 9, 16), 100000, Cell(VendorV), Cell(RefA)),
      TransData(Date(2025, 9, 15), 200000, Cell(VendorV), Cell(RefA)),
      TransData(Date(2025, 9, 15), 100000, Cell(VendorW), Cell(RefA)),
      TransData(Date(2025, 9, 15), 100000, Cell(VendorV), Null) }

MaxBatch == 2
MaxTx == 2

\* Transaction(period_id=..., source=..., ...): matched takes its default
NewTransaction(id, period_id, src, trans_data) ==
    [ id |-> id, period_id |-> period_id, source |-> src,
      transaction_date |-> trans_data.date, amount |-> trans_data.amount,
      vendor_gstin |-> trans_data.vendor, invoice_number |-> trans_data.reference,
      matched |-> FALSE ]

\* mutation: the source is left out of the filter
ExistingAnySource(table, period_id, src, trans_data) ==
    \E k \in 1 .. Len(table) :
        /\ table[k].period_id = period_id
        /\ table[k].invoice_number = trans_data.reference
        /\ table[k].vendor_gstin = trans_data.vendor
        /\ table[k].amount = trans_data.amount

\* session.query(Transaction).filter(...).first() is not None
Existing(table, period_id, src, trans_data) ==
    \E k \in 1 .. Len(table) :
        /\ table[k].period_id = period_id
        /\ table[k].source = src
        /\ table[k].invoice_number = trans_data.reference
        /\ table[k].vendor_gstin = trans_data.vendor
        /\ table[k].amount = trans_data.amount

\* the table after the loop over the batch
RECURSIVE save_transaction_batch(_, _, _, _)
save_transaction_batch(table, period_id, src, trans_list) ==
    IF trans_list = <<>> THEN table
    ELSE LET trans_data == Head(trans_list)
         IN  save_transaction_batch(
                 IF Existing(table, period_id, src, trans_data)
                 THEN table
                 ELSE Append(table, NewTransaction(Len(table) + 1, period_id, src,
                                                   trans_data)),
                 period_id, src, Tail(trans_list))

SaveTransactionBatch ==
    \E k \in 1 .. Len(session), src \in Sources, trans_list \in SeqsUpTo(TransDicts, MaxBatch) :
        LET after == save_transaction_batch(transactions, session[k].id, src, trans_list)
        IN  /\ Len(after) <= MaxTx
            /\ period' = session[k]
            /\ batch' = trans_list
            /\ source' = src
            /\ transactions' = after
            \* saved_transactions: the rows appended by this call
            /\ saved' = SubSeq(after, Len(transactions) + 1, Len(after))
            /\ UNCHANGED <<session, period_date>>
            /\ UNCHANGED <<reconVars, configVars, restVars, ingestVars, dupVars, simVars, uploadVars>>

\* the session after get_or_create_period for September and October 2025
TwoPeriods == << NewPeriod(1, Date(2025, 9, 1)), NewPeriod(2, Date(2025, 10, 1)) >>

InitBatch ==
    /\ session = TwoPeriods
    /\ period_date = Date(2025, 10, 5)
    /\ period = session[2]
    /\ BatchIdle
    /\ ReconIdle /\ ConfigIdle /\ RestIdle /\ IngestIdle /\ DupIdle /\ SimIdle /\ UploadIdle

NextBatch == SaveTransactionBatch

SpecBatch == InitBatch /\ [][NextBatch]_vars

\* (period, source, invoice number, vendor, amount) of a stored row
KeyOf(row) ==
    <<row.period_id, row.source, row.invoice_number, row.vendor_gstin, row.amount>>

\* the same key for a dictionary of a batch saved for a period and a source
KeyFor(period_id, src, trans_data) ==
    <<period_id, src, trans_data.reference, trans_data.vendor, trans_data.amount>>

StoredKeys(table) == { KeyOf(table[k]) : k \in 1 .. Len(table) }

C21_Step ==
    \* the rows stored before stay, the call returns exactly the rows it appended
    /\ SubSeq(transactions', 1, Len(transactions)) = transactions
    /\ saved' = SubSeq(transactions', Len(transactions) + 1, Len(transactions'))
    \* every transaction of the batch is stored afterwards
    /\ \A n \in 1 .. Len(batch') :
           KeyFor(period'.id, source', batch'[n]) \in StoredKeys(transactions')
    \* a returned row is a transaction of the batch that was not stored before,
    \* carries its date and is unmatched
    /\ \A n \in 1 .. Len(saved') :
           /\ KeyOf(saved'[n]) \notin StoredKeys(transactions)
           /\ \E m \in 1 .. Len(batch') :
                  /\ KeyOf(saved'[n]) = KeyFor(period'.id, source', batch'[m])
                  /\ saved'[n].transaction_date = batch'[m].date
           /\ saved'[n].matched = FALSE
    \* the same batch again stores nothing
    /\ (batch' = batch /\ source' = source /\ period'.id = period.id) =>
           saved' = <<>> /\ transactions' = transactions
    \* no two stored rows share a key
    /\ \A m, n \in 1 .. Len(transactions') :
           KeyOf(transactions'[m]) = KeyOf(transactions'[n]) => m = n

\* C21: save_transaction_batch stores every transaction of the batch whose
\* (period, source, reference, vendor, amount) is not stored yet and returns
\* exactly the rows it stored; the same batch again stores nothing and returns
\* an empty list; no two stored rows ever share (period, source, invoice
\* number, vendor, amount)
C21_BatchStoredOnce == [][C21_Step]_vars

C21_Witness ==
    /\ Len(transactions) = 2
    /\ Len(batch) = 2
    /\ saved = <<>>
    /\ transactions[1].source = "gstr2b" /\ transactions[2].source = "tally"
    /\ KeyFor(period.id, source, batch[1]) = KeyFor(period.id, source, batch[2])

(***************************************************************************)
(* Statistics: reconciliation_manager.py update_period_statistics.  Rows   *)
(* with matched set are put in the table the way the tests do it, with     *)
(* session.add(Transaction(...)) and a commit; nothing else in the backend *)
(* writes the column matched.                                              *)
(***************************************************************************)
MaxStored == 3

\* Transaction(period_id=..., source=..., transaction_date=..., amount=...,
\* matched=...): no vendor, no invoice number
AddedRows ==
    { [ period_id |-> p, source |-> sa[1], transaction_date |-> Date(2025, 9, 15),
        amount |-> sa[2], vendor_gstin |-> Null, invoice_number |-> Null,
        matched |-> m ] :
      p \in 1 .. Len(TwoPeriods), sa \in {<<"gstr2b", 100000>>, <<"tally", 200000>>},
      m \in BOOLEAN }

SessionAdd ==
    \E row \in AddedRows :
        /\ Len(transactions) < MaxStored
        /\ transactions' = Append(transactions, [id |-> Len(transactions) + 1] @@ row)
        /\ UNCHANGED <<session, period_date, period, batch, source, saved>>
        /\ UNCHANGED <<reconVars, configVars, restVars, ingestVars, dupVars, simVars, uploadVars>>

\* query(Transaction).filter(period_id == period.id)
of_period(table, period_id) ==
    SelectSeq(table, LAMBDA row : row.period_id = period_id)

\* mutation: the matched rows of every period
matched_of_periodAnyPeriod(table, period_id) ==
    SelectSeq(table, LAMBDA row : row.matched = TRUE)

\* query(Transaction).filter(period_id == period.id, matched == True)
matched_of_period(table, period_id) ==
    SelectSeq(table, LAMBDA row : row.period_id = period_id /\ row.matched = TRUE)

\* with_entities(func.sum(Transaction.amount)).scalar() or 0: the sum over no
\* rows is NULL, replaced by 0
RECURSIVE sum_amount(_)
sum_amount(rows) ==
    IF rows = <<>> THEN 0 ELSE Head(rows).amount + sum_amount(Tail(rows))

update_period_statistics(table, p) ==
    [ p EXCEPT !.total_transactions = Len(of_period(table, p.id)),
               !.matched_transactions = Len(matched_of_period(table, p.id)),
               !.total_amount = sum_amount(of_period(table, p.id)),
               !.matched_amount = sum_amount(matched_of_period(table, p.id)) ]

UpdatePeriodStatistics ==
    \E k \in 1 .. Len(session) :
        /\ session' = [session EXCEPT ![k] = update_period_statistics(transactions, session[k])]
        /\ period' = session'[k]
        /\ UNCHANGED <<period_date, transactions, batch, source, saved>>
        /\ UNCHANGED <<reconVars, configVars, restVars, ingestVars, dupVars, simVars, uploadVars>>

NextStats == SessionAdd \/ UpdatePeriodStatistics

SpecStats == InitBatch /\ [][NextStats]_vars

\* the row numbers of the transactions of a period, all or the matched ones
RowsOfPeriod(table, period_id) ==
    { k \in 1 .. Len(table) : table[k].period_id = period_id }

MatchedRowsOfPeriod(table, period_id) ==
    { k \in RowsOfPeriod(table, period_id) : table[k].matched }

C22_Step ==
    \* a step that leaves the table alone is a call of update_period_statistics
    transactions' = transactions =>
        LET all == RowsOfPeriod(transactions, period'.id)
            hit == MatchedRowsOfPeriod(transactions, period'.id)
        IN  /\ session'[period'.id] = period'
            /\ period'.total_transactions = Cardinality(all)
            /\ period'.total_amount = SumAmount(transactions, all)
            /\ period'.matched_transactions = Cardinality(hit)
            /\ period'.matched_amount = SumAmount(transactions, hit)
            /\ hit = {} => period'.matched_transactions = 0 /\ period'.matched_amount = 0
            /\ period'.matched_transactions <= period'.total_transactions
            \* nothing but the four statistics of that period is written
            /\ period'.id = session[period'.id].id
            /\ period'.period = session[period'.id].period
            /\ period'.status = session[period'.id].status
            /\ Len(session') = Len(session)
            /\ \A k \in 1 .. Len(session) : k # period'.id => session'[k] = session[k]

\* C22: after update_period_statistics(period) the period's total_transactions
\* and total_amount are the count and the sum of the amounts of the
\* transactions of that period, matched_transactions and matched_amount the
\* count and the sum over its matched transactions (0 when it has none), so
\* matched_transactions <= total_transactions; the other periods keep their
\* statistics
C22_PeriodStatistics == [][C22_Step]_vars

C22_Witness ==
    /\ Len(transactions) = 3
    /\ transactions[1].period_id = 1 /\ transactions[1].matched
    /\ transactions[2].period_id = 2 /\ transactions[2].matched
    /\ transactions[3].period_id = 1 /\ ~transactions[3].matched
    /\ period.id = 1
    /\ period.total_transactions = 2 /\ period.matched_transactions = 1
    /\ period.total_amount = transactions[1].amount + transactions[3].amount
    /\ period.matched_amount = transactions[1].amount
    /\ session[2].total_transactions = 0

(***************************************************************************)
(* The reference and amount factors of main.py on their own: ref_sim over  *)
(* a grid of [0, 1] and the amounts of two candidate pairs, with relative  *)
(* differences on both sides of 0.1%, 5% and 20%.                          *)
(***************************************************************************)
RefGrid == 200

RefSims == { Rat(n, RefGrid) : n \in 0 .. RefGrid }

AmountProbes == { 100000 + 1000 * k : k \in -30 .. 30 } \cup {99900, 99890, 100100}

AmountPairs == { <<100000, b>> : b \in AmountProbes } \cup { <<b, 100000>> : b \in AmountProbes }

FactorProbe(s, p, q) == [ref_sim |-> s, first |-> p, second |-> q]

FactorProbes ==
    { FactorProbe(s, <<100000, 100000>>, <<100000, 100000>>) : s \in RefSims }
        \cup { FactorProbe(One, p, q) : p \in AmountPairs, q \in AmountPairs }

\* factors['amount'] and the score added for the amounts of one pair
AmountFactor(p) ==
    [ amount_percent_diff |-> amount_percent_diff(p[1], p[2]),
      amount_score |-> amount_score(amount_percent_diff(p[1], p[2])),
      added |-> amount_contribution(p[1], p[2]) ]

\* sections 1 and 2 of the inner loop body
EvaluateFactors ==
    /\ factor_probe # NoResult /\ factor_scores = NoResult
    /\ factor_scores' = [ reference |-> ref_contribution(factor_probe.ref_sim),
                          first |-> AmountFactor(factor_probe.first),
                          second |-> AmountFactor(factor_probe.second) ]
    /\ UNCHANGED <<factor_probe, authVars>>
    /\ UNCHANGED <<reconVars, configVars, ingestVars, dupVars, simVars, dbVars, uploadVars>>

InitFactor ==
    /\ factor_probe \in FactorProbes
    /\ factor_scores = NoResult
    /\ AuthIdle
    /\ ReconIdle /\ ConfigIdle /\ IngestIdle /\ DupIdle /\ SimIdle /\ DbIdle /\ UploadIdle

NextFactor == EvaluateFactors

SpecFactor == InitFactor /\ [][NextFactor]_vars

\* C23: the reference contribution is 0.65 for a similarity s >= 0.98; for
\* every s in [0.8, 0.95) it is strictly below the linear share s * 0.65; for
\* s < 0.8 it is s * 0.15, which is below 0.12
C23_ReferenceTiers ==
    factor_scores # NoResult =>
        LET s == factor_probe.ref_sim
            c == factor_scores.reference
        IN  /\ RGe(s, Pct(98)) => c = Pct(65)
            /\ (RGe(s, Pct(80)) /\ RLt(s, Pct(95))) => RLt(c, RMul(s, Pct(65)))
            /\ RLt(s, Pct(80)) => c = RMul(s, Pct(15)) /\ RLt(c, Pct(12))

C23_Witness ==
    /\ factor_scores # NoResult
    /\ factor_probe.ref_sim = Pct(90)
    /\ factor_scores.reference = Pct(55)

\* |a - b| / max(a, b) for positive amounts
RelativeDifference(p) ==
    Rat(Abs(p[1] - p[2]), IF p[1] >= p[2] THEN p[1] ELSE p[2])

\* the amount factor of the claim as a function of the relative difference
AmountFactorAsClaimed(d, f) ==
    /\ RLe(d, Rat(1, 1000)) => f = One
    /\ (RGt(d, Rat(1, 1000)) /\ RLe(d, Pct(5))) => f = RSub(One, RMul(d, <<20, 1>>))
    /\ d = Pct(5) => f = Zero
    /\ (RGt(d, Pct(5)) /\ RLe(d, Pct(20))) =>
           /\ f = RMul(RSub(One, RMul(d, <<5, 1>>)), Pct(50))
           /\ RLt(f, Pct(50))
    /\ RGt(d, Pct(20)) => f = Zero
    /\ RGe(f, Zero) /\ RLe(f, One)

\* C24: with d = |a - b| / max(a, b) and the tolerance of 5%, the amount factor
\* is 1.0 for d <= 0.1%, else 1 - d / tolerance down to 0.0 at d = tolerance,
\* else a reduced partial credit up to d = 20%, and 0 beyond; it lies in
\* [0, 1] and adds at most 0.25 to the composite score
C24_AmountFactor ==
    factor_scores # NoResult =>
        \A side \in {"first", "second"} :
            /\ factor_scores[side].amount_percent_diff = RelativeDifference(factor_probe[side])
            /\ AmountFactorAsClaimed(RelativeDifference(factor_probe[side]),
                                     factor_scores[side].amount_score)
            /\ factor_scores[side].added = RMul(factor_scores[side].amount_score, Pct(25))
            /\ RLe(factor_scores[side].added, Pct(25))

C24_Witness ==
    /\ factor_scores # NoResult
    /\ factor_probe.first = <<100000, 90000>>
    /\ factor_scores.first.amount_score = Pct(25)
    /\ factor_probe.second = <<100000, 97000>>
    /\ factor_scores.second.amount_score = Pct(40)

\* C29: of two candidate pairs the one with the larger relative amount
\* difference never gets the higher amount factor, nor the higher amount
\* contribution to the composite score
C29_AmountFactorMonotone ==
    factor_scores # NoResult =>
        (RLe(RelativeDifference(factor_probe.first), RelativeDifference(factor_probe.second))
            => /\ RGe(factor_scores.first.amount_score, factor_scores.second.amount_score)
               /\ RGe(factor_scores.first.added, factor_scores.second.added))

(***************************************************************************)
(* Ingestion safety: what read_and_process_file hands to the matcher       *)
(***************************************************************************)
\* a cell that gives no amount above zero
BadAmountCell(val) ==
    \/ val \in {Missing, Unparsed, NanCell}
    \/ val \notin {Missing, Unparsed, NanCell} /\ val.v <= 0

\* a cell that gives no date
BadDateCell(val) == val \in {Missing, Unparsed}

\* C25: every row of a frame returned by read_and_process_file has a date and
\* an amount above zero; the rows of the file whose amount is missing,
\* unparseable, zero or negative, or whose date is missing or unparseable,
\* are not in the frame
C25_IngestedRowsValid ==
    (processed # NoResult /\ processed.status = "ok") =>
        /\ \A n \in 1 .. Len(processed.rows) :
               /\ processed.rows[n].date # NaT
               /\ processed.rows[n].amount # NaN
               /\ processed.rows[n].amount > 0
        /\ \A k \in 1 .. Len(raw_df.rows) :
               (BadAmountCell(raw_df.rows[k].amount) \/ BadDateCell(raw_df.rows[k].date))
                   => \A n \in 1 .. Len(processed.rows) : processed.rows[n].index # k

C25_Witness ==
    /\ processed # NoResult /\ processed.status = "ok"
    /\ Len(raw_df.rows) = 2
    /\ raw_df.rows[1].amount = Cell(0) /\ raw_df.rows[1].date = Cell(0)
    /\ raw_df.rows[2].amount = Cell(10000) /\ raw_df.rows[2].date = Cell(0)
    /\ Len(processed.rows) = 1
    /\ processed.rows[1].index = 2

(***************************************************************************)
(* Choice of the candidate in working_main.py and maximality in main.py    *)
(***************************************************************************)
\* the tally rows not consumed when the k-th match was made
AvailableAt(ms, k) ==
    (1 .. Len(tally_df)) \ { ms[m].tally_idx : m \in 1 .. k - 1 }

\* C26: in working_main.py every match pairs its gstr2b row with the tally row
\* of maximal score among the rows not yet consumed (a row scoring 1.0 is
\* preferred to one scoring 0.9 wherever it stands), the earliest among equals
C26_WorkingBestCandidate ==
    (engine = "working" /\ Returned) =>
        \A k \in 1 .. Len(matches) :
            \A b \in AvailableAt(matches, k) :
                LET other == total_score(gstr2b_df[matches[k].gstr2b_idx], tally_df[b])
                IN  /\ RLe(other, matches[k].match_score)
                    /\ other = matches[k].match_score => matches[k].tally_idx <= b

UnmatchedA(ms) == (1 .. Len(gstr2b_df)) \ MatchedA(ms)
UnmatchedB(ms) == (1 .. Len(tally_df)) \ MatchedB(ms)

\* C27: when the pass of main.py returns, no unmatched gstr2b row and unmatched
\* tally row score min_match_threshold or more against each other
C27_GreedyMaximal ==
    (engine = "main" /\ Returned) =>
        \A a \in UnmatchedA(matches), b \in UnmatchedB(matches) :
            RLt(composite_score(gstr2b_df[a], tally_df[b]), min_match_threshold)

C27_Witness ==
    /\ engine = "main" /\ Returned
    /\ Len(matches) = 1
    /\ UnmatchedA(matches) = {2} /\ UnmatchedB(matches) = {2}
    /\ RGt(composite_score(gstr2b_df[2], tally_df[2]), Pct(40))
    /\ RGt(composite_score(gstr2b_df[2], tally_df[1]), min_match_threshold)

RefSimilarity(a, b) == similarity_score(gstr2b_df[a].reference, tally_df[b].reference)

\* C28: every match recorded by main.py has a reference similarity of 0.8 or
\* more; a pair with a lower reference similarity scores below
\* 0.12 + 0.25 + 0.08 + 0.02 = 0.47 and so below the threshold of 0.5, whatever
\* its amounts, dates and vendors; a row with an empty reference is in no match
C28_MatchNeedsReference ==
    engine = "main" =>
        /\ \A k \in 1 .. Len(matches) :
               /\ RGe(RefSimilarity(matches[k].gstr2b_idx, matches[k].tally_idx), Pct(80))
               /\ gstr2b_df[matches[k].gstr2b_idx].reference # <<>>
               /\ tally_df[matches[k].tally_idx].reference # <<>>
        /\ \A a \in 1 .. Len(gstr2b_df), b \in 1 .. Len(tally_df) :
               RLt(RefSimilarity(a, b), Pct(80)) =>
                   /\ RLt(composite_score(gstr2b_df[a], tally_df[b]),
                          RAdd(RAdd(RAdd(Pct(12), Pct(25)), Pct(8)), Pct(2)))
                   /\ RLt(composite_score(gstr2b_df[a], tally_df[b]), min_match_threshold)

C28_Witness ==
    /\ engine = "main" /\ Returned
    /\ gstr2b_df[1].reference = Ref10 /\ tally_df[1].reference = Ref5
    /\ gstr2b_df[1].amount = tally_df[1].amount
    /\ gstr2b_df[1].date = tally_df[1].date
    /\ gstr2b_df[1].vendor = tally_df[1].vendor /\ gstr2b_df[1].vendor # <<>>
    /\ composite_score(gstr2b_df[1], tally_df[1]) = Pct(45)
    /\ matches = <<>>

(***************************************************************************)
(* Authentication: working_main.py Auth0JWTBearer.verify_token,            *)
(* get_current_user and the protected upload_files.  A token is described  *)
(* by what the jose library finds in it; Auth0 by the configured domain,   *)
(* whether the key set can be fetched, and the validator's jwks_cache.     *)
(***************************************************************************)
Tokens ==
    [ header_ok : BOOLEAN,               \* get_unverified_header can decode it
      kid : {"none", "known", "unknown"}, \* key id in the header, against the key set
      signature_ok : BOOLEAN,
      audience_ok : BOOLEAN,
      issuer_ok : BOOLEAN ]

\* AUTH0_DOMAIN: the placeholder default or a real tenant
Domains == {"your-auth0-domain.auth0.com", "tenant.auth0.com"}

DevUser == [status |-> "user", user_id |-> "dev-user"]
TokenUser == [status |-> "user", user_id |-> "sub of the token"]
Refused == [status |-> "error", code |-> 401]

\* get_jwks: the cached key set, else the fetched one, else None
get_jwks(a) == a.jwks_cache \/ a.reachable

\* verify_token and get_current_user: the user handed to the endpoint, or the
\* HTTPException that refuses the request
verify_token(t, a) ==
    IF a.domain = "your-auth0-domain.auth0.com" THEN DevUser
    ELSE IF ~get_jwks(a) THEN DevUser
    \* jwt.get_unverified_header raises JWTError
    ELSE IF ~t.header_ok THEN DevUser
    ELSE IF t.kid = "none" THEN Refused
    ELSE IF t.kid = "unknown" THEN Refused
    \* jwt.decode raises JWTError
    ELSE IF ~(t.signature_ok /\ t.audience_ok /\ t.issuer_ok) THEN DevUser
    ELSE TokenUser

GetCurrentUser ==
    /\ current_user = NoResult
    /\ current_user' = verify_token(token, auth0)
    /\ auth0' = [auth0 EXCEPT !.jwks_cache =
                    IF auth0.domain = "your-auth0-domain.auth0.com" THEN @
                    ELSE get_jwks(auth0)]
    /\ UNCHANGED <<token, upload_started, factorVars>>
    /\ UNCHANGED <<reconVars, configVars, ingestVars, dupVars, simVars, dbVars, uploadVars>>

\* the dependency returned a user: the body of upload_files runs
UploadBody ==
    /\ current_user # NoResult /\ current_user.status = "user"
    /\ ~upload_started
    /\ upload_started' = TRUE
    /\ UNCHANGED <<token, auth0, current_user, factorVars>>
    /\ UNCHANGED <<reconVars, configVars, ingestVars, dupVars, simVars, dbVars, uploadVars>>

\* the next request arrives; the validator keeps its cache
NextRequest ==
    /\ current_user # NoResult
    /\ current_user.status = "user" => upload_started
    /\ \E t \in Tokens, r \in BOOLEAN :
           /\ token' = t
           /\ auth0' = [auth0 EXCEPT !.reachable = r]
    /\ current_user' = NoResult
    /\ upload_started' = FALSE
    /\ UNCHANGED factorVars
    /\ UNCHANGED <<reconVars, configVars, ingestVars, dupVars, simVars, dbVars, uploadVars>>

InitAuth ==
    /\ token \in Tokens
    /\ auth0 \in [domain : Domains, reachable : BOOLEAN, jwks_cache : {FALSE}]
    /\ current_user = NoResult
    /\ upload_started = FALSE
    /\ FactorIdle
    /\ ReconIdle /\ ConfigIdle /\ IngestIdle /\ DupIdle /\ SimIdle /\ DbIdle /\ UploadIdle

NextAuth == GetCurrentUser \/ UploadBody \/ NextRequest

SpecAuth == InitAuth /\ [][NextAuth]_vars

\* signature, audience and issuer verified against a key of the Auth0 key set
Verified(t, a) ==
    /\ a.domain # "your-auth0-domain.auth0.com"
    /\ a.jwks_cache
    /\ t.header_ok /\ t.kid = "known"
    /\ t.signature_ok /\ t.audience_ok /\ t.issuer_ok

\* C30: verify_token hands a user to the endpoint only for a token whose
\* signature, audience and issuer were verified against the Auth0 key set;
\* every other token is refused with HTTP 401 and the body of upload_files
\* does not run
C30_OnlyVerifiedTokens ==
    /\ (current_user # NoResult /\ current_user.status = "user") => Verified(token, auth0)
    /\ (current_user # NoResult /\ ~Verified(token, auth0)) => current_user = Refused
    /\ upload_started => Verified(token, auth0)

====
